---- MODULE Spec2Model ----
(***************************************************************************)
(* Model of the test orchestration engine of IDNML_testing_tool:           *)
(*   - BaseTest.run, the four-phase lifecycle of one check                 *)
(*     (src/core/base_test.py), specification SpecRun;                     *)
(*   - TestFramework.run_tests and _run_tests_for_url, the run and the     *)
(*     page visits (src/core/framework_manager.py), specification Spec,    *)
(*     and under every site plan shape specification SpecPlan;             *)
(*   - CMPHandler.handle_consent (src/core/cmp_handler.py), specification  *)
(*     SpecCmp;                                                            *)
(*   - ReadinessWaiter.wait_for_prebid_and_gpt                             *)
(*     (src/core/readiness_waiter.py), specification SpecWait;             *)
(*   - one consent search attempt by attempt, specification SpecSel; the   *)
(*     consent flag over several run_tests invocations, SpecFlag;          *)
(*   - the metadata a visit attaches to an outcome, specification          *)
(*     SpecMeta; the selection of the checks, SpecSelect;                  *)
(*   - the bounded waits of a visit and their timeouts, specification      *)
(*     SpecVisitWaits; _add_basic_auth_to_url, specification SpecAuth;     *)
(*   - Spec under the event loop's scheduling, specification SpecFair;     *)
(*   - the check instances a visit constructs, specification SpecInst;     *)
(*     the lines a visit writes to standard output, SpecLog;               *)
(*   - TestFramework.discover_tests and framework.discovery.discover_tests *)
(*     (src/core/framework/discovery.py), specification SpecDisc.          *)
(***************************************************************************)
EXTENDS Integers, Sequences, FiniteSets, TLC

VARIABLES
    run,          \* SpecRun: the activation record of one BaseTest.run call
    config,       \* the run configuration and the registered checks
    mpc,          \* where run_tests is
    browser_manager, \* the BrowserManager: playwright, browser, context
    pagesOpen,    \* the pages that are open (0: the warm-up / sequential page)
    warm,         \* the warm-up loop: index and position of the current load
    visits,       \* per URL index, the activation of _run_tests_for_url
    semaphore,    \* the value of the asyncio.Semaphore of parallel mode
    results,      \* run_tests' results list
    cmp_handled,  \* CMPHandler.cmp_handled
    cmp_calls,    \* the handle_consent calls made so far, by page load
    consent,      \* SpecCmp, SpecFlag: per caller, the activation of
                  \* handle_consent; SpecSel: one call and its search
    waiter        \* SpecWait: one wait_for_prebid_and_gpt call and its page;
                  \* SpecVisitWaits: the visit's position in its waits

vars == <<run, config, mpc, browser_manager, pagesOpen, warm, visits, semaphore,
          results, cmp_handled, cmp_calls, consent, waiter>>

\* The variables that BaseTest.run does not touch.
orch == <<config, mpc, browser_manager, pagesOpen, warm, visits, semaphore,
          results, cmp_handled, cmp_calls, consent, waiter>>

(***************************************************************************)
(* Bounds of the model.                                                    *)
(***************************************************************************)
MaxUrls == 2

MaxChecks == 2

MaxConcurrency == 2

MaxWarmup == 1

MaxExcluded == 1

MaxCallers == 2

MaxCalls == 3

MaxRounds == 2

MaxTimeout == 4

MaxPoll == 2

MaxLatency == 1

MaxFrames == 2

MaxNames == 2

\* The run_tests invocations on one TestFramework.
MaxRuns == 2

\* The most test modules under tests/.
MaxModules == 2

Urls == 1..MaxUrls

CheckIds == 1..MaxChecks

(***************************************************************************)
(* TestState and TestResult (base_test.py 7-25).                           *)
(***************************************************************************)
TestState == {"PENDING", "RUNNING", "PASSED", "FAILED", "SKIPPED", "ERROR"}

TerminalStates == {"PASSED", "FAILED", "SKIPPED", "ERROR"}

\* TestResult.__init__: a new outcome is PENDING, has no url, no errors and
\* execution_time 0.
TestResult(test_name) ==
    [test_name |-> test_name, state |-> "PENDING", url |-> 0,
     errors |-> <<>>, execution_time |-> 0]

\* Python's None where a TestResult is expected: reading or writing any
\* attribute of it raises AttributeError.
NoneResult ==
    [test_name |-> 0, state |-> "NONE", url |-> 0,
     errors |-> <<>>, execution_time |-> 0]

IsNone(r) == r.state = "NONE"

(***************************************************************************)
(* The behaviours of the four abstract phases of a check                   *)
(* (base_test.py 35-53), as the checks under src/tests implement them.     *)
(***************************************************************************)
\* setup returns True, returns False, or raises.
SetupBehaviours == {"true", "false", "raise"}

\* execute builds a new TestResult and returns it with the state it left in
\* it (most checks leave PENDING, IdentityModulesTest sets PASSED/FAILED,
\* SlotDumpProbe may set SKIPPED), or raises, or returns None.
ExecuteBehaviours == {"PENDING", "PASSED", "FAILED", "SKIPPED", "raise", "none"}

\* validate assigns PASSED, FAILED or SKIPPED, or returns its argument as it
\* is (IdentityModulesTest), or raises.
ValidateBehaviours == {"PASSED", "FAILED", "SKIPPED", "keep", "raise"}

\* cleanup returns, or raises.
CleanupBehaviours == {"ok", "raise"}

Behaviours ==
    [setup : SetupBehaviours, execute : ExecuteBehaviours,
     validate : ValidateBehaviours, cleanup : CleanupBehaviours]

\* The check contract: execute returns a TestResult, and the outcome that
\* leaves validate has been given a state by execute or by validate.
Contract(b) ==
    /\ b.execute # "none"
    /\ ~(b.execute = "PENDING" /\ b.validate = "keep")

(***************************************************************************)
(* BaseTest.run (base_test.py 72-102), one step per statement between two  *)
(* awaits.  A frame is the activation record of one run call.              *)
(***************************************************************************)
NoCalls == [setup |-> 0, execute |-> 0, validate |-> 0, cleanup |-> 0]

\* run(page, url) entered: result = TestResult(self.name); result.url = url;
\* start_time taken.
NewFrame(name, url, b) ==
    [pc |-> "try", beh |-> b, name |-> name, url |-> url,
     result |-> [TestResult(name) EXCEPT !.url = url],
     clock |-> 0, exc |-> "", calls |-> NoCalls, setupRet |-> "none",
     validated |-> NoneResult, raisedIn |-> "none"]

IdleFrame ==
    [pc |-> "idle", beh |-> [setup |-> "true", execute |-> "PENDING",
                             validate |-> "PASSED", cleanup |-> "ok"],
     name |-> 0, url |-> 0, result |-> NoneResult,
     clock |-> 0, exc |-> "", calls |-> NoCalls, setupRet |-> "none",
     validated |-> NoneResult, raisedIn |-> "none"]

\* line 79: result.state = TestState.RUNNING
EnterTry(f) ==
    [f EXCEPT !.pc = "setup", !.result.state = "RUNNING"]

\* DoSetup with the SKIPPED assignment lost: a skipped check keeps RUNNING.
DoSetupSkipKeepsRunning(f) ==
    CASE f.beh.setup = "true" ->
           [f EXCEPT !.pc = "execute", !.setupRet = "true",
                     !.calls.setup = @ + 1, !.clock = @ + 1]
      [] f.beh.setup = "false" ->
           [f EXCEPT !.pc = "finally", !.setupRet = "false",
                     !.calls.setup = @ + 1, !.clock = @ + 1]
      [] OTHER ->
           [f EXCEPT !.pc = "except", !.setupRet = "raise",
                     !.exc = "setup failed", !.raisedIn = "setup",
                     !.calls.setup = @ + 1, !.clock = @ + 1]

\* DoSetup with the early return lost: a skipped check goes on to execute.
DoSetupSkipFallsThrough(f) ==
    CASE f.beh.setup = "true" ->
           [f EXCEPT !.pc = "execute", !.setupRet = "true",
                     !.calls.setup = @ + 1, !.clock = @ + 1]
      [] f.beh.setup = "false" ->
           [f EXCEPT !.pc = "execute", !.setupRet = "false",
                     !.result.state = "SKIPPED",
                     !.calls.setup = @ + 1, !.clock = @ + 1]
      [] OTHER ->
           [f EXCEPT !.pc = "except", !.setupRet = "raise",
                     !.exc = "setup failed", !.raisedIn = "setup",
                     !.calls.setup = @ + 1, !.clock = @ + 1]

\* lines 82-84: if not await self.setup(page, url): SKIPPED, return result
DoSetup(f) ==
    CASE f.beh.setup = "true" ->
           [f EXCEPT !.pc = "execute", !.setupRet = "true",
                     !.calls.setup = @ + 1, !.clock = @ + 1]
      [] f.beh.setup = "false" ->
           [f EXCEPT !.pc = "finally", !.setupRet = "false",
                     !.result.state = "SKIPPED",
                     !.calls.setup = @ + 1, !.clock = @ + 1]
      [] OTHER ->
           [f EXCEPT !.pc = "except", !.setupRet = "raise",
                     !.exc = "setup failed", !.raisedIn = "setup",
                     !.calls.setup = @ + 1, !.clock = @ + 1]

\* ExecuteOutcome of a check that leaves url as TestResult.__init__ made it.
ExecuteOutcomeUrlUnset(f) ==
    [TestResult(f.name) EXCEPT
        !.state = f.beh.execute,
        !.errors = IF f.beh.execute = "FAILED" THEN <<"execute: missing">> ELSE <<>>]

\* The TestResult a check's execute builds: TestResult(self.name), url set,
\* the state execute leaves in it, an error message with FAILED.
ExecuteOutcome(f) ==
    [TestResult(f.name) EXCEPT
        !.url = f.url,
        !.state = f.beh.execute,
        !.errors = IF f.beh.execute = "FAILED" THEN <<"execute: missing">> ELSE <<>>]

\* line 87: result = await self.execute(page, url)
DoExecute(f) ==
    CASE f.beh.execute = "raise" ->
           [f EXCEPT !.pc = "except", !.exc = "execute failed",
                     !.raisedIn = "execute",
                     !.calls.execute = @ + 1, !.clock = @ + 1]
      [] f.beh.execute = "none" ->
           [f EXCEPT !.pc = "validate", !.result = NoneResult,
                     !.calls.execute = @ + 1, !.clock = @ + 1]
      [] OTHER ->
           [f EXCEPT !.pc = "validate", !.result = ExecuteOutcome(f),
                     !.calls.execute = @ + 1, !.clock = @ + 1]

\* What a check's validate returns for the outcome r.
ValidateOutcome(r, v) ==
    CASE v = "keep" -> r
      [] v = "FAILED" ->
           [r EXCEPT !.state = "FAILED",
                     !.errors = Append(@, "validate: missing")]
      [] OTHER -> [r EXCEPT !.state = v]

\* line 90: result = await self.validate(result).  A validate that reads or
\* writes an attribute of None raises AttributeError.
DoValidate(f) ==
    CASE f.beh.validate = "raise" ->
           [f EXCEPT !.pc = "except", !.exc = "validate failed",
                     !.raisedIn = "validate",
                     !.calls.validate = @ + 1, !.clock = @ + 1]
      [] f.beh.validate # "raise" /\ f.beh.validate # "keep" /\ IsNone(f.result) ->
           [f EXCEPT !.pc = "except", !.exc = "NoneType has no attribute",
                     !.raisedIn = "validate",
                     !.calls.validate = @ + 1, !.clock = @ + 1]
      [] OTHER ->
           [f EXCEPT !.pc = "cleanup",
                     !.result = ValidateOutcome(f.result, f.beh.validate),
                     !.validated = ValidateOutcome(f.result, f.beh.validate),
                     !.calls.validate = @ + 1, !.clock = @ + 1]

\* line 93: await self.cleanup(page, result), inside the try block
DoCleanup(f) ==
    IF f.beh.cleanup = "raise"
    THEN [f EXCEPT !.pc = "except", !.exc = "cleanup failed",
                   !.raisedIn = "cleanup",
                   !.calls.cleanup = @ + 1, !.clock = @ + 1]
    ELSE [f EXCEPT !.pc = "finally",
                   !.calls.cleanup = @ + 1, !.clock = @ + 1]

\* DoExcept with the ERROR assignment lost.
DoExceptKeepsState(f) ==
    IF IsNone(f.result)
    THEN [f EXCEPT !.pc = "finally", !.exc = "NoneType has no attribute"]
    ELSE [f EXCEPT !.pc = "finally", !.exc = "",
                   !.result.errors = Append(@, "Test execution error: " \o f.exc)]

\* lines 95-97: except Exception as e: state = ERROR, message appended.
\* With result None the handler itself raises AttributeError.
DoExcept(f) ==
    IF IsNone(f.result)
    THEN [f EXCEPT !.pc = "finally", !.exc = "NoneType has no attribute"]
    ELSE [f EXCEPT !.pc = "finally", !.exc = "",
                   !.result.state = "ERROR",
                   !.result.errors = Append(@, "Test execution error: " \o f.exc)]

\* lines 99-102: finally: execution_time = now - start_time; return result.
\* With result None the assignment raises AttributeError out of run.
DoFinally(f) ==
    IF IsNone(f.result)
    THEN [f EXCEPT !.pc = "raised", !.exc = "NoneType has no attribute"]
    ELSE [f EXCEPT !.pc = "returned", !.result.execution_time = f.clock]

RunStep(f) ==
    CASE f.pc = "try" -> EnterTry(f)
      [] f.pc = "setup" -> DoSetup(f)
      [] f.pc = "execute" -> DoExecute(f)
      [] f.pc = "validate" -> DoValidate(f)
      [] f.pc = "cleanup" -> DoCleanup(f)
      [] f.pc = "except" -> DoExcept(f)
      [] f.pc = "finally" -> DoFinally(f)
      [] OTHER -> f

RunEnded(f) == f.pc \in {"returned", "raised"}

RECURSIVE RunToEnd(_)
\* await test.run(page, url) as its caller sees it: the frame when run has
\* returned or raised.
RunToEnd(f) == IF RunEnded(f) \/ f.pc = "idle" THEN f ELSE RunToEnd(RunStep(f))

(***************************************************************************)
(* The run configuration and the registered checks                         *)
(* (framework_manager.py 24-32, 413-425, 596-610, 630-631, 648, 674).      *)
(***************************************************************************)
\* What a registered check class does when it is constructed and run: the
\* same on every URL.  A check whose setup returns false runs like "pass"
\* as far as the visit is concerned (its run returns an outcome; SpecRun
\* covers it), so the kinds are these four.
CheckKinds == {"pass", "error", "runraise", "ctorraise"}

\* The phase behaviours of a check of each kind.
KindBehaviour(kind) ==
    CASE kind = "error" ->
           [setup |-> "true", execute |-> "raise", validate |-> "PASSED",
            cleanup |-> "ok"]
      [] kind = "runraise" ->
           [setup |-> "true", execute |-> "none", validate |-> "keep",
            cleanup |-> "ok"]
      [] OTHER ->
           [setup |-> "true", execute |-> "PENDING", validate |-> "PASSED",
            cleanup |-> "ok"]

\* config['urls'] holds the URLs 1..nurls; tests[k] is the k-th selected test
\* class and kinds[k] what it does.
Configs ==
    UNION {[nurls : 0..MaxUrls,
            parallel_tests : BOOLEAN,
            concurrency : 1..MaxConcurrency,
            warmup_pages : 0..MaxWarmup,
            tests : {[k \in 1..n |-> k]},
            kinds : [1..n -> CheckKinds]] : n \in 0..MaxChecks}

\* The names a site plan or a class attribute `name` can hold: the names of
\* the classes (class k is called k) and 0, a name no class has.
Names == 0..MaxChecks

\* What _detect_page_type returns (lines 156-189), lower-cased.
PageTypes == {"index", "article"}

\* The lists of names a site plan holds, as sets (lines 521, 523).
NameSets == {S \in SUBSET Names : Cardinality(S) <= MaxExcluded}

\* SITE_TEST_PLANS.get(site_id, {}) of a site without an entry (line 515).
NoPlanEntry ==
    [entry |-> FALSE, has_exclude |-> FALSE, exclude |-> {},
     exclude_by_page_type |-> [t \in PageTypes |-> {}]]

\* The shapes of a site's entry in SITE_TEST_PLANS (site_test_plans.py
\* 12-55): "exclude" is a list or missing, "exclude_by_page_type" lists
\* names for page type "index" and for no other page type.
PlanEntries ==
    {[entry |-> TRUE, has_exclude |-> h, exclude |-> g,
      exclude_by_page_type |-> [t \in PageTypes |-> IF t = "index" THEN x ELSE {}]] :
        h \in BOOLEAN, g \in NameSets, x \in NameSets}

SitePlans == {NoPlanEntry} \cup {p \in PlanEntries : p.has_exclude \/ p.exclude = {}}

\* A run's configuration c with the plan of its active site, the page type
\* each URL's page reports and each class's class attribute `name` ({} when
\* the class has none).
World(c, plan, pt, na) ==
    [nurls |-> c.nurls, parallel_tests |-> c.parallel_tests,
     concurrency |-> c.concurrency, warmup_pages |-> c.warmup_pages,
     tests |-> c.tests, kinds |-> c.kinds,
     site_plan |-> plan, page_type |-> pt, name_attr |-> na]

\* The configurations of a site without a plan entry, no class having a
\* class attribute `name`.
PlainWorlds ==
    {World(c, NoPlanEntry, [i \in 1..c.nurls |-> "article"],
           [k \in 1..Len(c.tests) |-> {}]) : c \in Configs}

\* The class attribute `name` a class can carry: none, some class's name, or
\* a name no class has.
NameAttrs == {{}} \cup {{n} : n \in Names}

Min(a, b) == IF a < b THEN a ELSE b

Max(a, b) == IF a > b THEN a ELSE b

\* lines 630-631: warmup_pages = max(0, min(warmup_pages, total_urls))
WarmupPages == Max(0, Min(config.warmup_pages, config.nurls))

\* HandleCmp that forgets the warm-up.
HandleCmpFirstVisit(i) == i = 1

\* lines 666, 687: handle_cmp=(url_idx == 1 and warmup_pages == 0)
HandleCmp(i) == i = 1 /\ WarmupPages = 0

\* No handle_consent call is active (SpecCmp models the calls).
NoConsent == <<>>

\* No wait_for_prebid_and_gpt call is active (SpecWait models the call).
NoWaiter == [pc |-> "idle"]

\* page: the page the visit works on, {} while it has none.
NoVisit == [pc |-> "idle", ci |-> 0, out |-> <<>>, raising |-> FALSE, page |-> {}]

\* BrowserManager.__init__ (browser_manager.py 8-12), with call counters.
NewBrowserManager ==
    [playwright |-> FALSE, browser |-> FALSE, context |-> FALSE,
     startCalls |-> 0, closeCalls |-> 0, newPages |-> 0]

\* BrowserManager.start (browser_manager.py 21-135)
BmStart(b) ==
    [b EXCEPT !.playwright = TRUE, !.browser = TRUE, !.context = TRUE,
              !.startCalls = @ + 1]

\* BrowserManager.close (browser_manager.py 143-150)
BmClose(b) ==
    [b EXCEPT !.browser = FALSE, !.playwright = FALSE, !.closeCalls = @ + 1]

\* BrowserManager.new_page (browser_manager.py 137-141), having returned.
BmNewPage(b) == [b EXCEPT !.newPages = @ + 1]

(***************************************************************************)
(* TestFramework.run_tests (framework_manager.py 590-710).                 *)
(***************************************************************************)
\* lines 659-660: the sequential loop calls _run_tests_for_url with its one
\* page; the first await of the visit is add_cookies (line 490).
StartVisit(v, i) ==
    [v EXCEPT ![i] = [NoVisit EXCEPT !.pc = "cookies", !.page = {0}]]

\* lines 692-695: one task per URL, each first waiting for the semaphore.
CreateTasks(v) ==
    [i \in Urls |-> IF i <= config.nurls THEN [NoVisit EXCEPT !.pc = "acquire"]
                    ELSE v[i]]

\* EnterMode whose sequential loop starts after the warmed-up URLs.
EnterModeSkipsWarmed ==
    IF ~config.parallel_tests
    THEN /\ semaphore' = semaphore
         /\ IF 0 \in pagesOpen'
            THEN mpc' = "seq" /\ visits' = StartVisit(visits, WarmupPages + 1)
            ELSE mpc' = "seq_newpage" /\ visits' = visits
    ELSE /\ semaphore' = config.concurrency
         /\ mpc' = "gather"
         /\ visits' = CreateTasks(visits)

\* EnterMode whose sequential mode opens a page of its own after a warm-up.
EnterModeOwnPage ==
    IF ~config.parallel_tests
    THEN /\ semaphore' = semaphore
         /\ mpc' = "seq_newpage" /\ visits' = visits
    ELSE /\ semaphore' = config.concurrency
         /\ mpc' = "gather"
         /\ visits' = CreateTasks(visits)

\* lines 648-698 up to the first await after the warm-up phase, the warm-up
\* page (if any) being open.
EnterMode ==
    IF ~config.parallel_tests
    THEN /\ semaphore' = semaphore
         /\ IF 0 \in pagesOpen'
            THEN mpc' = "seq" /\ visits' = StartVisit(visits, 1)
            ELSE mpc' = "seq_newpage" /\ visits' = visits
    ELSE /\ semaphore' = config.concurrency
         /\ mpc' = "gather"
         /\ visits' = CreateTasks(visits)

\* lines 594-610: the selected test classes; none: return at once.
RunTestsSelect ==
    /\ mpc = "select"
    /\ mpc' = IF Len(config.tests) = 0 THEN "returned" ELSE "start"
    /\ results' = <<>>
    /\ UNCHANGED <<run, consent, waiter, config, browser_manager, pagesOpen, warm,
                 visits, semaphore, cmp_handled, cmp_calls>>

\* lines 613-633: browser_manager.start(), the URL list, the warm-up count.
RunTestsStart ==
    /\ mpc = "start"
    /\ \/ /\ browser_manager' = BmStart(browser_manager)
          /\ pagesOpen' = pagesOpen
          /\ IF config.nurls = 0
             THEN mpc' = "close_empty" /\ UNCHANGED <<visits, semaphore>>
             ELSE IF WarmupPages > 0
                  THEN mpc' = "warm_newpage" /\ UNCHANGED <<visits, semaphore>>
                  ELSE EnterMode
       \/ /\ browser_manager' = [browser_manager EXCEPT !.playwright = TRUE, !.startCalls = @ + 1]
          /\ mpc' = "raised"
          /\ UNCHANGED <<pagesOpen, visits, semaphore>>
    /\ UNCHANGED <<run, consent, waiter, config, warm, results, cmp_handled, cmp_calls>>

\* RunTestsNoUrls with the close lost on the early return.
RunTestsNoUrlsNoClose ==
    /\ mpc = "close_empty"
    /\ mpc' = "returned"
    /\ UNCHANGED <<run, consent, waiter, config, browser_manager, pagesOpen, warm,
                 visits, semaphore, results, cmp_handled, cmp_calls>>

\* lines 624-627: no URLs: close the browser and return.
RunTestsNoUrls ==
    /\ mpc = "close_empty"
    /\ browser_manager' = BmClose(browser_manager)
    /\ pagesOpen' = {}
    /\ mpc' = "returned"
    /\ UNCHANGED <<run, consent, waiter, config, warm, visits, semaphore, results,
                 cmp_handled, cmp_calls>>

\* line 637: self._warm_page = await self.browser_manager.new_page()
WarmNewPage ==
    /\ mpc = "warm_newpage"
    /\ \/ /\ pagesOpen' = pagesOpen \cup {0}
          /\ browser_manager' = BmNewPage(browser_manager)
          /\ warm' = [idx |-> 1, pc |-> "cookies"]
          /\ mpc' = "warmup"
       \/ /\ mpc' = "raised"
          /\ UNCHANGED <<pagesOpen, browser_manager, warm>>
    /\ UNCHANGED <<run, consent, waiter, config, visits, semaphore,
                 results, cmp_handled, cmp_calls>>

\* _warmup_url line 449: cookies are set (a failure is caught, line 116).
WarmCookies ==
    /\ mpc = "warmup" /\ warm.pc = "cookies"
    /\ warm' = [warm EXCEPT !.pc = "goto"]
    /\ UNCHANGED <<run, consent, waiter, config, mpc, browser_manager, pagesOpen, visits,
                 semaphore, results, cmp_handled, cmp_calls>>

\* _warmup_url line 450: page.goto returns or raises out of run_tests.
WarmGoto ==
    /\ mpc = "warmup" /\ warm.pc = "goto"
    /\ \/ /\ warm' = [warm EXCEPT !.pc = IF warm.idx = 1 THEN "consent" ELSE "ready"]
          /\ mpc' = mpc
       \/ /\ mpc' = "raised"
          /\ warm' = warm
    /\ UNCHANGED <<run, consent, waiter, config, browser_manager, pagesOpen, visits,
                 semaphore, results, cmp_handled, cmp_calls>>

\* _warmup_url lines 452-453 and CMPHandler.handle_consent (cmp_handler.py
\* 22-30): the search clicks a control or times out.
WarmConsent ==
    /\ mpc = "warmup" /\ warm.pc = "consent"
    /\ warm' = [warm EXCEPT !.pc = "ready"]
    /\ cmp_calls' = Append(cmp_calls, <<"warmup", warm.idx>>)
    /\ IF cmp_handled THEN cmp_handled' = cmp_handled
       ELSE \E clicked \in BOOLEAN : cmp_handled' = clicked
    /\ UNCHANGED <<run, consent, waiter, config, mpc, browser_manager, pagesOpen, visits,
                 semaphore, results>>

\* _warmup_url lines 455-458 and the loop of lines 638-646: the readiness
\* wait ends; the next warm-up load, or on to the real visits.
WarmReady ==
    /\ mpc = "warmup" /\ warm.pc = "ready"
    /\ pagesOpen' = pagesOpen
    /\ IF warm.idx < WarmupPages
       THEN /\ warm' = [idx |-> warm.idx + 1, pc |-> "cookies"]
            /\ UNCHANGED <<mpc, visits, semaphore>>
       ELSE /\ warm' = [warm EXCEPT !.pc = "done"]
            /\ EnterMode
    /\ UNCHANGED <<run, consent, waiter, config, browser_manager, results, cmp_handled, cmp_calls>>

\* line 657: page = await self.browser_manager.new_page()
SeqNewPage ==
    /\ mpc = "seq_newpage"
    /\ \/ /\ pagesOpen' = pagesOpen \cup {0}
          /\ browser_manager' = BmNewPage(browser_manager)
          /\ visits' = StartVisit(visits, 1)
          /\ mpc' = "seq"
       \/ /\ mpc' = "raised"
          /\ UNCHANGED <<pagesOpen, browser_manager, visits>>
    /\ UNCHANGED <<run, consent, waiter, config, warm, semaphore,
                 results, cmp_handled, cmp_calls>>

(***************************************************************************)
(* TestFramework._run_tests_for_url (framework_manager.py 462-586), and    *)
(* the task run_for_url of parallel mode (lines 677-690).                  *)
(***************************************************************************)
\* A visit takes steps while run_tests is in its visit loop or in gather.
Visiting(i) == mpc \in {"seq", "gather"} /\ i <= config.nurls

\* lines 678-679: async with semaphore; page = await new_page()
TaskAcquire(i) ==
    /\ Visiting(i) /\ visits[i].pc = "acquire"
    /\ semaphore > 0
    /\ semaphore' = semaphore - 1
    /\ visits' = [visits EXCEPT ![i].pc = "newpage"]
    /\ UNCHANGED <<run, consent, waiter, config, mpc, browser_manager, pagesOpen, warm,
                 results, cmp_handled, cmp_calls>>

\* TaskNewPage that keeps the permit when new_page raises.
TaskNewPageKeepsPermit(i) ==
    /\ Visiting(i) /\ visits[i].pc = "newpage"
    /\ \/ /\ pagesOpen' = pagesOpen \cup {i}
          /\ browser_manager' = BmNewPage(browser_manager)
          /\ visits' = [visits EXCEPT ![i].pc = "cookies", ![i].page = {i}]
          /\ semaphore' = semaphore
       \/ /\ visits' = [visits EXCEPT ![i].pc = "failed"]
          /\ semaphore' = semaphore
          /\ UNCHANGED <<pagesOpen, browser_manager>>
    /\ UNCHANGED <<run, consent, waiter, config, mpc, warm, results, cmp_handled, cmp_calls>>

\* line 679: new_page returns the task's own page, or raises: the permit is
\* released and the task ends with the exception.
TaskNewPage(i) ==
    /\ Visiting(i) /\ visits[i].pc = "newpage"
    /\ \/ /\ pagesOpen' = pagesOpen \cup {i}
          /\ browser_manager' = BmNewPage(browser_manager)
          /\ visits' = [visits EXCEPT ![i].pc = "cookies", ![i].page = {i}]
          /\ semaphore' = semaphore
       \/ /\ visits' = [visits EXCEPT ![i].pc = "failed"]
          /\ semaphore' = semaphore + 1
          /\ UNCHANGED <<pagesOpen, browser_manager>>
    /\ UNCHANGED <<run, consent, waiter, config, mpc, warm, results, cmp_handled, cmp_calls>>

\* _run_tests_for_url raises.  Sequential mode (lines 659-668): the exception
\* leaves run_tests.  Parallel mode (lines 689-690): finally: page.close().
VisitRaises(i) ==
    IF ~config.parallel_tests
    THEN /\ visits' = [visits EXCEPT ![i].pc = "failed", ![i].raising = TRUE]
         /\ mpc' = "raised"
         /\ results' = results
    ELSE /\ visits' = [visits EXCEPT ![i].pc = "closepage", ![i].raising = TRUE]
         /\ mpc' = mpc
         /\ results' = results

\* _run_tests_for_url returns url_results (line 586).  Sequential mode (lines
\* 659-668): results.extend(url_results), then the next URL's visit or the
\* end of the loop.  Parallel mode: finally: page.close().
VisitReturns(i, out) ==
    IF ~config.parallel_tests
    THEN /\ results' = results \o out
         /\ IF i < config.nurls
            THEN /\ visits' = [StartVisit(visits, i + 1) EXCEPT
                                  ![i].pc = "done", ![i].out = out]
                 /\ mpc' = mpc
            ELSE /\ visits' = [visits EXCEPT ![i].pc = "done", ![i].out = out]
                 /\ mpc' = "close"
    ELSE /\ visits' = [visits EXCEPT ![i].pc = "closepage", ![i].out = out]
         /\ mpc' = mpc
         /\ results' = results

\* VisitCookies that hands over to consent handling with the navigation
\* still to come.
VisitCookiesBeforeConsent(i) ==
    /\ Visiting(i) /\ visits[i].pc = "cookies"
    /\ visits' = [visits EXCEPT
                     ![i].pc = IF HandleCmp(i) THEN "consent" ELSE "ready"]
    /\ UNCHANGED <<run, consent, waiter, config, mpc, browser_manager, pagesOpen, warm,
                 semaphore, results, cmp_handled, cmp_calls>>

\* line 490: _set_context_cookies; add_cookies failing is caught (line 116).
VisitCookies(i) ==
    /\ Visiting(i) /\ visits[i].pc = "cookies"
    /\ visits' = [visits EXCEPT ![i].pc = "goto"]
    /\ UNCHANGED <<run, consent, waiter, config, mpc, browser_manager, pagesOpen, warm,
                 semaphore, results, cmp_handled, cmp_calls>>

\* line 493: page.goto returns, or raises out of the visit.
VisitGoto(i) ==
    /\ Visiting(i) /\ visits[i].pc = "goto"
    /\ \/ /\ visits' = [visits EXCEPT
                          ![i].pc = IF HandleCmp(i) THEN "consent" ELSE "ready"]
          /\ UNCHANGED <<mpc, results>>
       \/ VisitRaises(i)
    /\ UNCHANGED <<run, consent, waiter, config, browser_manager, pagesOpen, warm,
                 semaphore, cmp_handled, cmp_calls>>

\* lines 496-497 and CMPHandler.handle_consent (cmp_handler.py 22-30)
VisitConsent(i) ==
    /\ Visiting(i) /\ visits[i].pc = "consent"
    /\ visits' = [visits EXCEPT ![i].pc = "ready"]
    /\ cmp_calls' = Append(cmp_calls, <<"visit", i>>)
    /\ IF cmp_handled THEN cmp_handled' = cmp_handled
       ELSE \E clicked \in BOOLEAN : cmp_handled' = clicked
    /\ UNCHANGED <<run, consent, waiter, config, mpc, browser_manager, pagesOpen, warm,
                 semaphore, results>>

\* lines 500-501: the readiness wait returns True or False, never raises
\* (readiness_waiter.py 66-91); its value is not used.
VisitReady(i) ==
    /\ Visiting(i) /\ visits[i].pc = "ready"
    /\ visits' = [visits EXCEPT ![i].pc = "slots"]
    /\ UNCHANGED <<run, consent, waiter, config, mpc, browser_manager, pagesOpen, warm,
                 semaphore, results, cmp_handled, cmp_calls>>

\* line 504: _wait_for_gpt_slot_responses; its page.evaluate calls (lines
\* 259-306) are not guarded.
VisitSlots(i) ==
    /\ Visiting(i) /\ visits[i].pc = "slots"
    /\ \/ /\ visits' = [visits EXCEPT ![i].pc = "pagetype"]
          /\ UNCHANGED <<mpc, results>>
       \/ VisitRaises(i)
    /\ UNCHANGED <<run, consent, waiter, config, browser_manager, pagesOpen, warm,
                 semaphore, cmp_handled, cmp_calls>>

\* line 507: _detect_page_type; page.evaluate (line 182) is not guarded.
VisitPageType(i) ==
    /\ Visiting(i) /\ visits[i].pc = "pagetype"
    /\ \/ /\ visits' = [visits EXCEPT ![i].pc = "locale"]
          /\ UNCHANGED <<mpc, results>>
       \/ VisitRaises(i)
    /\ UNCHANGED <<run, consent, waiter, config, browser_manager, pagesOpen, warm,
                 semaphore, cmp_handled, cmp_calls>>

\* lines 517-518: _class_name(cls) = getattr(cls, "name", cls.__name__)
ClassName(cls) ==
    IF config.name_attr[cls] = {} THEN cls
    ELSE CHOOSE n \in config.name_attr[cls] : TRUE

\* lines 521-526: disallowed = excluded_site | excluded_pt, for the page
\* type detected on URL i.
Disallowed(i) ==
    config.site_plan.exclude \cup
        config.site_plan.exclude_by_page_type[config.page_type[i]]

\* lines 514-535: the classes to run on this URL.
RunClasses(i) ==
    IF config.site_plan.entry /\ config.site_plan.has_exclude
    THEN SelectSeq(config.tests, LAMBDA cls : ClassName(cls) \notin Disallowed(i))
    ELSE config.tests

\* lines 511-537: _detect_locale (page.evaluate, line 146, not guarded), the
\* site plan, url_results = [].
VisitLocale(i) ==
    /\ Visiting(i) /\ visits[i].pc = "locale"
    /\ \/ IF Len(RunClasses(i)) = 0
          THEN VisitReturns(i, <<>>)
          ELSE /\ visits' = [visits EXCEPT ![i].pc = "checks", ![i].ci = 1]
               /\ UNCHANGED <<mpc, results>>
       \/ VisitRaises(i)
    /\ UNCHANGED <<run, consent, waiter, config, browser_manager, pagesOpen, warm,
                 semaphore, cmp_handled, cmp_calls>>

\* lines 550-567: result = await test.run(page, url); the outcome is appended
\* to url_results; an exception out of run is logged (line 567).
AfterRun(out, f) ==
    IF f.pc = "returned" THEN Append(out, f.result) ELSE out

\* lines 540-567, one iteration: the class is constructed (line 542, outside
\* the try), run and its outcome recorded; after the last class the visit
\* returns url_results.
VisitCheck(i) ==
    /\ Visiting(i) /\ visits[i].pc = "checks"
    /\ LET ci == visits[i].ci
           cls == RunClasses(i)[ci]
           kind == config.kinds[cls]
           f == RunToEnd(NewFrame(cls, i, KindBehaviour(kind)))
           out == AfterRun(visits[i].out, f)
       IN IF kind = "ctorraise"
          THEN VisitRaises(i)
          ELSE IF ci < Len(RunClasses(i))
               THEN /\ visits' = [visits EXCEPT ![i].ci = ci + 1, ![i].out = out]
                    /\ UNCHANGED <<mpc, results>>
               ELSE VisitReturns(i, out)
    /\ UNCHANGED <<run, consent, waiter, config, browser_manager, pagesOpen, warm,
                 semaphore, cmp_handled, cmp_calls>>

\* lines 689-690 and the end of async with (line 678): the task's page is
\* closed, the permit released, the task ends with a result or an exception.
TaskClosePage(i) ==
    /\ Visiting(i) /\ visits[i].pc = "closepage"
    /\ pagesOpen' = pagesOpen \ {i}
    /\ semaphore' = semaphore + 1
    /\ visits' = [visits EXCEPT
                     ![i].pc = IF visits[i].raising THEN "failed" ELSE "done"]
    /\ UNCHANGED <<run, consent, waiter, config, mpc, browser_manager, warm, results,
                 cmp_handled, cmp_calls>>

\* Gathered that keeps the last task's list only.
GatheredLast(v, n) == IF n = 0 THEN <<>> ELSE v[n].out

RECURSIVE Gathered(_, _)
\* lines 696-698: the tasks' url_results in task order, concatenated.
Gathered(v, n) == IF n = 0 THEN <<>> ELSE Gathered(v, n - 1) \o v[n].out

\* line 696: await asyncio.gather(*tasks): the first exception of a task is
\* raised out of run_tests while the other tasks go on; when all tasks have
\* returned, their lists are concatenated (lines 697-698).
Gather ==
    /\ mpc = "gather"
    /\ \/ /\ \E i \in 1..config.nurls : visits[i].pc = "failed"
          /\ mpc' = "raised"
          /\ results' = results
       \/ /\ \A i \in 1..config.nurls : visits[i].pc = "done"
          /\ mpc' = "close"
          /\ results' = results \o Gathered(visits, config.nurls)
    /\ UNCHANGED <<run, consent, waiter, config, browser_manager, pagesOpen, warm,
                 visits, semaphore, cmp_handled, cmp_calls>>

\* lines 700-702: browser_manager.close() closes every page.
RunTestsClose ==
    /\ mpc = "close"
    /\ browser_manager' = BmClose(browser_manager)
    /\ pagesOpen' = {}
    /\ mpc' = "report"
    /\ UNCHANGED <<run, consent, waiter, config, warm, visits, semaphore, results,
                 cmp_handled, cmp_calls>>

\* lines 704-710: the CSV files are written and results returned.
RunTestsReturn ==
    /\ mpc = "report"
    /\ mpc' = "returned"
    /\ UNCHANGED <<run, consent, waiter, config, browser_manager, pagesOpen, warm,
                 visits, semaphore, results, cmp_handled, cmp_calls>>

\* TestFramework.__init__ (lines 24-32) and a configuration; run_tests is
\* about to be called.
Init ==
    /\ run = IdleFrame
    /\ config \in PlainWorlds
    /\ mpc = "select"
    /\ browser_manager = NewBrowserManager
    /\ pagesOpen = {}
    /\ warm = [idx |-> 0, pc |-> "idle"]
    /\ visits = [i \in Urls |-> NoVisit]
    /\ semaphore = 0
    /\ results = <<>>
    /\ cmp_handled = FALSE
    /\ cmp_calls = <<>>
    /\ consent = NoConsent
    /\ waiter = NoWaiter

Next ==
    \/ RunTestsSelect
    \/ RunTestsStart
    \/ RunTestsNoUrls
    \/ WarmNewPage
    \/ WarmCookies
    \/ WarmGoto
    \/ WarmConsent
    \/ WarmReady
    \/ SeqNewPage
    \/ \E i \in Urls : TaskAcquire(i)
    \/ \E i \in Urls : TaskNewPage(i)
    \/ \E i \in Urls : VisitCookies(i)
    \/ \E i \in Urls : VisitGoto(i)
    \/ \E i \in Urls : VisitConsent(i)
    \/ \E i \in Urls : VisitReady(i)
    \/ \E i \in Urls : VisitSlots(i)
    \/ \E i \in Urls : VisitPageType(i)
    \/ \E i \in Urls : VisitLocale(i)
    \/ \E i \in Urls : VisitCheck(i)
    \/ \E i \in Urls : TaskClosePage(i)
    \/ Gather
    \/ RunTestsClose
    \/ RunTestsReturn

Spec == Init /\ [][Next]_vars

(***************************************************************************)
(* SpecFair: Spec with the event loop's scheduling: asyncio runs a         *)
(* coroutine that is ready, and every awaited call of a page returns or    *)
(* raises (Playwright's calls carry their own timeouts), so a step that    *)
(* can be taken is eventually taken.  No step of the model can be taken    *)
(* twice, hence weak fairness of Next is all the scheduling that progress  *)
(* needs.                                                                  *)
(***************************************************************************)
Fairness == WF_vars(Next)

SpecFair == Init /\ [][Next]_vars /\ Fairness

(***************************************************************************)
(* SpecPlan: run_tests under every site plan shape, page type and class    *)
(* attribute `name`, every check passing.                                  *)
(***************************************************************************)
InitPlan ==
    /\ run = IdleFrame
    /\ \E c \in Configs, plan \in SitePlans :
          /\ \A k \in 1..Len(c.tests) : c.kinds[k] = "pass"
          /\ \E pt \in [1..c.nurls -> PageTypes],
                na \in [1..Len(c.tests) -> NameAttrs] :
                config = World(c, plan, pt, na)
    /\ mpc = "select"
    /\ browser_manager = NewBrowserManager
    /\ pagesOpen = {}
    /\ warm = [idx |-> 0, pc |-> "idle"]
    /\ visits = [i \in Urls |-> NoVisit]
    /\ semaphore = 0
    /\ results = <<>>
    /\ cmp_handled = FALSE
    /\ cmp_calls = <<>>
    /\ consent = NoConsent
    /\ waiter = NoWaiter

SpecPlan == InitPlan /\ [][Next]_vars

(***************************************************************************)
(* SpecRun: one check instance, run called on it with any phase behaviour. *)
(***************************************************************************)
Call ==
    /\ run.pc = "idle"
    /\ \E b \in Behaviours, n \in CheckIds, u \in Urls :
          run' = NewFrame(n, u, b)
    /\ UNCHANGED orch

Enter == UNCHANGED orch /\ run.pc = "try" /\ run' = EnterTry(run)

Setup == UNCHANGED orch /\ run.pc = "setup" /\ run' = DoSetup(run)

Execute == UNCHANGED orch /\ run.pc = "execute" /\ run' = DoExecute(run)

Validate == UNCHANGED orch /\ run.pc = "validate" /\ run' = DoValidate(run)

Cleanup == UNCHANGED orch /\ run.pc = "cleanup" /\ run' = DoCleanup(run)

Except == UNCHANGED orch /\ run.pc = "except" /\ run' = DoExcept(run)

Finally == UNCHANGED orch /\ run.pc = "finally" /\ run' = DoFinally(run)

InitRun ==
    /\ run = IdleFrame
    /\ config = [nurls |-> 0, parallel_tests |-> FALSE, concurrency |-> 1,
              warmup_pages |-> 0, tests |-> <<>>, kinds |-> <<>>]
    /\ mpc = "idle"
    /\ browser_manager = NewBrowserManager
    /\ pagesOpen = {}
    /\ warm = [idx |-> 0, pc |-> "idle"]
    /\ visits = [i \in Urls |-> NoVisit]
    /\ semaphore = 0
    /\ results = <<>>
    /\ cmp_handled = FALSE
    /\ cmp_calls = <<>>
    /\ consent = NoConsent
    /\ waiter = NoWaiter

NextRun ==
    \/ Call
    \/ Enter
    \/ Setup
    \/ Execute
    \/ Validate
    \/ Cleanup
    \/ Except
    \/ Finally

SpecRun == InitRun /\ [][NextRun]_vars

(***************************************************************************)
(* SpecCmp: one CMPHandler and the coroutines that call handle_consent on  *)
(* it (src/core/cmp_handler.py).  cmp_calls logs every call and every      *)
(* click that succeeded.                                                   *)
(***************************************************************************)
Callers == 1..MaxCallers

\* No call of this caller is active.
IdleCall == [pc |-> "idle", page |-> 0, rounds |-> 0, late |-> FALSE, ret |-> "none"]

\* A click has succeeded on this handler before now.
Clicked == \E j \in 1..Len(cmp_calls) : cmp_calls[j][1] = "click"

\* handle_consent without the test of cmp_handled.
HandleConsentUnguarded(c, p) ==
    /\ consent[c].pc = "idle"
    /\ Len(cmp_calls) < MaxCalls
    /\ cmp_calls' = Append(cmp_calls, <<"call", p>>)
    /\ consent' = [consent EXCEPT ![c] =
                      [pc |-> "search", page |-> p, rounds |-> 0,
                       late |-> Clicked, ret |-> "none"]]
    /\ UNCHANGED cmp_handled

\* handle_consent lines 22-28: the call returns at once when cmp_handled,
\* else it enters _dismiss_any_cmp (lines 39-69: deadline, selector lists).
HandleConsent(c, p) ==
    /\ consent[c].pc = "idle"
    /\ Len(cmp_calls) < MaxCalls
    /\ cmp_calls' = Append(cmp_calls, <<"call", p>>)
    /\ consent' = [consent EXCEPT ![c] =
                      IF cmp_handled
                      THEN [pc |-> "idle", page |-> p, rounds |-> 0,
                            late |-> Clicked, ret |-> "immediate"]
                      ELSE [pc |-> "search", page |-> p, rounds |-> 0,
                            late |-> Clicked, ret |-> "none"]]
    /\ UNCHANGED cmp_handled

\* _dismiss_any_cmp lines 69-98, one round of the loop before the deadline:
\* the selectors are tried on the page and its frames; a click succeeds and
\* the call returns, cmp_handled set (lines 29-30, with no await between the
\* click and the assignment); or nothing is clicked, or an exception is
\* caught (lines 94-96, 112-113), and the call sleeps (line 98).
SearchRound(c) ==
    /\ consent[c].pc = "search"
    /\ consent[c].rounds < MaxRounds
    /\ \/ /\ consent' = [consent EXCEPT ![c].pc = "idle", ![c].ret = "clicked",
                                        ![c].rounds = @ + 1]
          /\ cmp_handled' = TRUE
          /\ cmp_calls' = Append(cmp_calls, <<"click", consent[c].page>>)
       \/ /\ consent' = [consent EXCEPT ![c].rounds = @ + 1]
          /\ UNCHANGED <<cmp_handled, cmp_calls>>

\* _dismiss_any_cmp lines 69, 100-101: the deadline has passed: return False.
SearchTimeout(c) ==
    /\ consent[c].pc = "search"
    /\ consent' = [consent EXCEPT ![c].pc = "idle", ![c].ret = "timeout"]
    /\ UNCHANGED <<cmp_handled, cmp_calls>>

\* The variables that CMPHandler does not touch.
notCmp == <<run, config, mpc, browser_manager, pagesOpen, warm, visits, semaphore,
            results, waiter>>

CmpCall == UNCHANGED notCmp /\ \E c \in Callers, p \in Urls : HandleConsent(c, p)

CmpRound == UNCHANGED notCmp /\ \E c \in Callers : SearchRound(c)

CmpTimeout == UNCHANGED notCmp /\ \E c \in Callers : SearchTimeout(c)

\* CMPHandler.__init__ (lines 15-17); no run_tests call is active.
InitCmp ==
    /\ run = IdleFrame
    /\ config = [nurls |-> 0, parallel_tests |-> FALSE, concurrency |-> 1,
                 warmup_pages |-> 0, tests |-> <<>>, kinds |-> <<>>]
    /\ mpc = "idle"
    /\ browser_manager = NewBrowserManager
    /\ pagesOpen = {}
    /\ warm = [idx |-> 0, pc |-> "idle"]
    /\ visits = [i \in Urls |-> NoVisit]
    /\ semaphore = 0
    /\ results = <<>>
    /\ cmp_handled = FALSE
    /\ cmp_calls = <<>>
    /\ consent = [c \in Callers |-> IdleCall]
    /\ waiter = NoWaiter

NextCmp ==
    \/ CmpCall
    \/ CmpRound
    \/ CmpTimeout

SpecCmp == InitCmp /\ [][NextCmp]_vars

(***************************************************************************)
(* SpecWait: one call of ReadinessWaiter.wait_for_prebid_and_gpt           *)
(* (src/core/readiness_waiter.py 66-91) on a page whose readiness          *)
(* condition becomes true at time ready_at and stays true, or never does.  *)
(* Time is counted in ticks.                                               *)
(***************************************************************************)
\* ReadinessWaiter.__init__ (lines 6-9) with timeout t and poll_interval p,
\* and the first statement of the call (line 66: elapsed = 0) at time 0.
NewWaiter(t, p, ever, at) ==
    [pc |-> "loop", timeout |-> t, poll_interval |-> p, elapsed |-> 0,
     now |-> 0, ever |-> ever, ready_at |-> at, ret |-> FALSE,
     raised |-> FALSE, polls |-> 0, slow |-> FALSE, caught |-> FALSE]

\* The in-page condition (lines 70-75: all four sub-signals) at time t.
ConditionAt(w, t) == w.ever /\ w.ready_at <= t

\* The variables that the readiness wait does not touch.
notWait == <<run, config, mpc, browser_manager, pagesOpen, warm, visits, semaphore,
             results, cmp_handled, cmp_calls, consent>>

\* WaitPoll with the loop test elapsed <= timeout.
WaitPollInclusive ==
    /\ UNCHANGED notWait
    /\ waiter.pc = "loop"
    /\ waiter.elapsed <= waiter.timeout
    /\ \E d \in 0..MaxLatency, raises \in BOOLEAN :
          LET w == [waiter EXCEPT !.now = @ + d, !.polls = @ + 1,
                                  !.slow = @ \/ d > 0,
                                  !.caught = @ \/ raises]
          IN waiter' = IF ~raises /\ ConditionAt(w, w.now)
                       THEN [w EXCEPT !.pc = "returned", !.ret = TRUE]
                       ELSE [w EXCEPT !.pc = "sleep"]

\* lines 67-82, one poll: page.evaluate takes d ticks and answers for the
\* time it ends at, or raises and the exception is caught (lines 81-82);
\* the call returns True when the condition holds (line 80).
WaitPoll ==
    /\ UNCHANGED notWait
    /\ waiter.pc = "loop"
    /\ waiter.elapsed < waiter.timeout
    /\ \E d \in 0..MaxLatency, raises \in BOOLEAN :
          LET w == [waiter EXCEPT !.now = @ + d, !.polls = @ + 1,
                                  !.slow = @ \/ d > 0,
                                  !.caught = @ \/ raises]
          IN waiter' = IF ~raises /\ ConditionAt(w, w.now)
                       THEN [w EXCEPT !.pc = "returned", !.ret = TRUE]
                       ELSE [w EXCEPT !.pc = "sleep"]

\* lines 84-85: await asyncio.sleep(poll_interval); elapsed += poll_interval
WaitSleep ==
    /\ UNCHANGED notWait
    /\ waiter.pc = "sleep"
    /\ waiter' = [waiter EXCEPT !.pc = "loop",
                                !.now = @ + waiter.poll_interval,
                                !.elapsed = @ + waiter.poll_interval]

\* lines 67, 87-91: elapsed has reached the timeout: return False.
WaitTimeout ==
    /\ UNCHANGED notWait
    /\ waiter.pc = "loop"
    /\ waiter.elapsed >= waiter.timeout
    /\ waiter' = [waiter EXCEPT !.pc = "returned", !.ret = FALSE]

\* A waiter with any timeout and poll interval, called on any such page.
InitWait ==
    /\ run = IdleFrame
    /\ config = [nurls |-> 0, parallel_tests |-> FALSE, concurrency |-> 1,
                 warmup_pages |-> 0, tests |-> <<>>, kinds |-> <<>>]
    /\ mpc = "idle"
    /\ browser_manager = NewBrowserManager
    /\ pagesOpen = {}
    /\ warm = [idx |-> 0, pc |-> "idle"]
    /\ visits = [i \in Urls |-> NoVisit]
    /\ semaphore = 0
    /\ results = <<>>
    /\ cmp_handled = FALSE
    /\ cmp_calls = <<>>
    /\ consent = NoConsent
    /\ \E t \in -1..MaxTimeout, p \in 1..MaxPoll, ever \in BOOLEAN,
          at \in 0..MaxTimeout :
          /\ ever \/ at = 0
          /\ waiter = NewWaiter(t, p, ever, at)

NextWait ==
    \/ WaitPoll
    \/ WaitSleep
    \/ WaitTimeout

SpecWait == InitWait /\ [][NextWait]_vars

(***************************************************************************)
(* SpecSel: one call of CMPHandler._dismiss_any_cmp (cmp_handler.py        *)
(* 39-101), attempt by attempt, on a page with child frames.  Here consent *)
(* is the activation of that call; target 0 is the top-level document and  *)
(* target f > 0 the f-th child frame.                                      *)
(***************************************************************************)
\* No run_tests call is active.
NoRun ==
    /\ run = IdleFrame
    /\ config = [nurls |-> 0, parallel_tests |-> FALSE, concurrency |-> 1,
                 warmup_pages |-> 0, tests |-> <<>>, kinds |-> <<>>]
    /\ mpc = "idle"
    /\ browser_manager = NewBrowserManager
    /\ pagesOpen = {}
    /\ warm = [idx |-> 0, pc |-> "idle"]
    /\ visits = [i \in Urls |-> NoVisit]
    /\ semaphore = 0
    /\ results = <<>>

\* lines 43-67: the selector lists: the site-specific CSS selectors
\* (eu_selectors + uk_cop_selectors), the generic CSS selectors, the XPath
\* selectors.
SelectorLists == <<"site_css", "generic_css", "xpath">>

\* lines 71-92: the k-th attempt of a round on a page with nf child frames:
\* the three lists on the page, then the three lists on each frame of
\* page.frames, which starts with the main frame (target 0).
RoundLength(nf) == 3 + 3 * (nf + 1)

Attempt(nf, k) ==
    IF k <= 3 THEN <<SelectorLists[k], 0>>
    ELSE <<SelectorLists[((k - 4) % 3) + 1], (k - 4) \div 3>>

\* The k-th attempt of a round in list-major order: each list on the
\* top-level document and then on every child frame, before the next list.
ListMajorAttempt(nf, k) ==
    <<SelectorLists[((k - 1) \div (nf + 1)) + 1], (k - 1) % (nf + 1)>>

\* _dismiss_any_cmp is entered (line 40) on a page with nf child frames on
\* which the (list, target) pairs in m have an element whose click succeeds.
NewSearch(nf, m) ==
    [pc |-> "head", frames |-> nf, matches |-> m, round |-> 0, tried |-> <<>>,
     ret |-> "none"]

\* line 69: the deadline has not passed: a round starts.
SelRound ==
    /\ UNCHANGED <<run, config, mpc, browser_manager, pagesOpen, warm, visits,
                   semaphore, results, cmp_handled, cmp_calls, waiter>>
    /\ consent.pc = "head"
    /\ consent.round < MaxRounds
    /\ consent' = [consent EXCEPT !.pc = "round", !.round = @ + 1, !.tried = <<>>]

\* lines 72-92 with 106-124: the next attempt of the round: the click
\* succeeds and the call returns True at once, or it does not (no element,
\* or an exception that _try_click_* swallows) and the round goes on; after
\* the last attempt the call sleeps (line 98).
SelAttempt ==
    /\ UNCHANGED <<run, config, mpc, browser_manager, pagesOpen, warm, visits,
                   semaphore, results, cmp_handled, cmp_calls, waiter>>
    /\ consent.pc = "round"
    /\ LET k == Len(consent.tried) + 1
           a == Attempt(consent.frames, k)
           c == [consent EXCEPT !.tried = Append(@, a)]
       IN consent' =
            IF a \in consent.matches
            THEN [c EXCEPT !.pc = "returned", !.ret = "clicked"]
            ELSE IF k = RoundLength(consent.frames)
                 THEN [c EXCEPT !.pc = "head"]
                 ELSE c

\* lines 69, 100-101: the deadline has passed: return False.
SelTimeout ==
    /\ UNCHANGED <<run, config, mpc, browser_manager, pagesOpen, warm, visits,
                   semaphore, results, cmp_handled, cmp_calls, waiter>>
    /\ consent.pc = "head"
    /\ consent' = [consent EXCEPT !.pc = "returned", !.ret = "timeout"]

InitSel ==
    /\ NoRun
    /\ cmp_handled = FALSE
    /\ cmp_calls = <<>>
    /\ waiter = NoWaiter
    /\ \E nf \in 0..MaxFrames :
          \E m \in SUBSET ({SelectorLists[l] : l \in 1..3} \X (0..nf)) :
              consent = NewSearch(nf, m)

NextSel ==
    \/ SelRound
    \/ SelAttempt
    \/ SelTimeout

SpecSel == InitSel /\ [][NextSel]_vars

(***************************************************************************)
(* SpecMeta: the visit's handling of one outcome that a check's run has    *)
(* returned (framework_manager.py 550-565).  Here config holds the         *)
(* outcome and the page type and locale detected for the URL, and results  *)
(* is url_results.  A metadata dict is a function from its keys.           *)
(***************************************************************************)
MetaKeys == {"page_type", "locale", "note"}

MetaValues == {"index", "article", "UK", "US", "None"}

\* Python's None as the value of TestResult.metadata (line 556).
MetaNone == [k \in {"<None>"} |-> "None"]

\* The empty dict (base_test.py 24, framework_manager.py 557).
EmptyDict == [k \in {} |-> "None"]

\* The outcomes a run returns: any terminal state, metadata None or a dict
\* the check filled.
ReturnedOutcomes ==
    [test_name : CheckIds, state : TerminalStates, url : Urls,
     errors : {<<>>, <<"e">>}, warnings : {<<>>, <<"w">>}, data : {"d"},
     metadata : {MetaNone} \cup
                UNION {[K -> MetaValues] : K \in (SUBSET MetaKeys) \ {{}}} \cup
                {EmptyDict}]

\* dict.setdefault(k, v) that assigns the key whatever the dict holds.
SetAlways(d, k, v) ==
    [x \in DOMAIN d \cup {k} |-> IF x = k THEN v ELSE d[x]]

\* dict.setdefault(k, v) (lines 559-560)
SetDefault(d, k, v) ==
    [x \in DOMAIN d \cup {k} |-> IF x \in DOMAIN d THEN d[x] ELSE v]

\* lines 553-563: metadata None becomes {}, then the two setdefault calls.
AttachMetadata(o, page_type, locale) ==
    LET d == IF o.metadata = MetaNone THEN EmptyDict ELSE o.metadata
    IN [o EXCEPT !.metadata =
            SetDefault(SetDefault(d, "page_type", page_type), "locale", locale)]

\* lines 550-565: the outcome gets its metadata and is appended to
\* url_results.
VisitRecord ==
    /\ UNCHANGED <<run, config, mpc, browser_manager, pagesOpen, warm, visits,
                   semaphore, cmp_handled, cmp_calls, consent, waiter>>
    /\ results = <<>>
    /\ results' = Append(results,
                         AttachMetadata(config.returned, config.page_type,
                                        config.locale))

InitMeta ==
    /\ run = IdleFrame
    /\ \E o \in ReturnedOutcomes, pt \in PageTypes \cup {"unknown"},
          loc \in {"UK", "US"} :
          config = [returned |-> o, page_type |-> pt, locale |-> loc]
    /\ mpc = "idle"
    /\ browser_manager = NewBrowserManager
    /\ pagesOpen = {}
    /\ warm = [idx |-> 0, pc |-> "idle"]
    /\ visits = [i \in Urls |-> NoVisit]
    /\ semaphore = 0
    /\ results = <<>>
    /\ cmp_handled = FALSE
    /\ cmp_calls = <<>>
    /\ consent = NoConsent
    /\ waiter = NoWaiter

NextMeta == VisitRecord

SpecMeta == InitMeta /\ [][NextMeta]_vars

(***************************************************************************)
(* SpecSelect: the selection of the checks at the start of run_tests       *)
(* (framework_manager.py 596-610) from the registry that discover_tests    *)
(* built (lines 364-398), and the run up to its first visit.  Here config  *)
(* also holds the registry and the arguments of run_tests.                 *)
(***************************************************************************)
\* lines 380-385: the categories of discover_tests.
Categories == {"PREBID", "GPT", "OTHER"}

\* The category arguments: none (None or ""), a category in either case, or
\* a word that is no category.
CategoryArgs == {"", "PREBID", "prebid", "gpt", "video"}

\* str.upper on the category arguments (line 402).
Upper(s) ==
    CASE s = "prebid" -> "PREBID"
      [] s = "gpt" -> "GPT"
      [] s = "video" -> "VIDEO"
      [] OTHER -> s

\* The test_names arguments: None or [] (both <<>>), or names of which some
\* may not be registered.
NameLists == UNION {[1..n -> Names] : n \in 0..MaxNames}

\* The classes in registration order.
AllClasses == [k \in CheckIds |-> k]

\* line 606: list(self.tests.values())
RegisteredClasses(c) == SelectSeq(AllClasses, LAMBDA k : k \in c.registered)

\* get_tests_by_category (lines 400-403)
GetTestsByCategory(c, category) ==
    SelectSeq(AllClasses,
              LAMBDA k : k \in c.registered /\ c.category_of[k] = Upper(category))

\* lines 596-606 where the missing names select nothing but fall through to
\* the category.
TestClassesFallsThrough(c) ==
    LET byName == SelectSeq(c.test_names, LAMBDA n : n \in c.registered)
    IN IF Len(byName) > 0 THEN byName
       ELSE IF c.category # "" THEN GetTestsByCategory(c, c.category)
       ELSE RegisteredClasses(c)

\* lines 596-606: test_classes
TestClasses(c) ==
    IF Len(c.test_names) > 0
    THEN SelectSeq(c.test_names, LAMBDA n : n \in c.registered)
    ELSE IF c.category # "" THEN GetTestsByCategory(c, c.category)
    ELSE RegisteredClasses(c)

\* lines 594-610: the selection; nothing selected: return results at once.
SelectTests ==
    /\ mpc = "select"
    /\ config' = [config EXCEPT !.tests = TestClasses(config)]
    /\ mpc' = IF Len(TestClasses(config)) = 0 THEN "returned" ELSE "start"
    /\ results' = <<>>
    /\ UNCHANGED <<run, consent, waiter, browser_manager, pagesOpen, warm, visits,
                   semaphore, cmp_handled, cmp_calls>>

\* A framework after discover_tests, run_tests called with any arguments in
\* sequential mode without warm-up.
InitSelect ==
    /\ run = IdleFrame
    /\ \E reg \in SUBSET CheckIds, names \in NameLists, cat \in CategoryArgs,
          n \in 0..MaxUrls :
          \E catof \in [reg -> Categories] :
              config = [nurls |-> n, parallel_tests |-> FALSE, concurrency |-> 1,
                        warmup_pages |-> 0, tests |-> <<>>,
                        kinds |-> [k \in CheckIds |-> "pass"],
                        site_plan |-> NoPlanEntry,
                        page_type |-> [i \in 1..n |-> "article"],
                        name_attr |-> [k \in CheckIds |-> {}],
                        registered |-> reg, category_of |-> catof,
                        test_names |-> names, category |-> cat]
    /\ mpc = "select"
    /\ browser_manager = NewBrowserManager
    /\ pagesOpen = {}
    /\ warm = [idx |-> 0, pc |-> "idle"]
    /\ visits = [i \in Urls |-> NoVisit]
    /\ semaphore = 0
    /\ results = <<>>
    /\ cmp_handled = FALSE
    /\ cmp_calls = <<>>
    /\ consent = NoConsent
    /\ waiter = NoWaiter

NextSelect ==
    \/ SelectTests
    \/ RunTestsStart
    \/ RunTestsNoUrls
    \/ SeqNewPage

SpecSelect == InitSelect /\ [][NextSelect]_vars

(***************************************************************************)
(* SpecVisitWaits: the bounded waits of one page visit, in the order of    *)
(* _run_tests_for_url (framework_manager.py 495-507): consent dismissal    *)
(* (cmp_handler.py 22-101), readiness (readiness_waiter.py 66-91) and      *)
(* page-type detection (framework_manager.py 156-189).  Time is counted in *)
(* ticks of a quarter of a second, the sleep of the consent and page-type  *)
(* loops; a round is counted as its sleep.  At every poll the page answers *)
(* with the awaited signal, without it, or raises.  Here waiter holds the  *)
(* visit's position and config the three timeouts of the run               *)
(* configuration.  The slot wait and the locale detection between the      *)
(* waits (lines 504, 511) are taken to return.                             *)
(***************************************************************************)
\* Ticks in a second.
TicksPerSecond == 4

\* handle_consent(page, timeout=10) (cmp_handler.py line 22): the timeout
\* of a call that passes none, as line 497 does.
DefaultCmpTimeout == 10 * TicksPerSecond

\* ReadinessWaiter.__init__ (readiness_waiter.py line 7): poll_interval 0.5
ReadyPollInterval == 2

\* The waits of a visit.
VisitWaits == {"consent", "ready", "pagetype"}

\* What a wait can find on the page at one poll.
PollAnswers == {"signal", "nothing", "raise"}

\* The bound each wait computes at entry: line 497 passes no timeout to
\* handle_consent; line 500 passes prebid_ready_timeout; line 177 reads
\* page_type_timeout.
Deadline(wait) ==
    IF wait = "consent" THEN DefaultCmpTimeout
    ELSE IF wait = "ready" THEN config.prebid_ready_timeout
    ELSE config.page_type_timeout

\* The sleep of each wait's loop (cmp_handler.py line 98, readiness_waiter.py
\* line 84, framework_manager.py line 186).
Interval(wait) == IF wait = "ready" THEN ReadyPollInterval ELSE 1

\* The visit enters a wait: elapsed = 0, the deadline is fixed.
EnterWait(w, wait) ==
    [w EXCEPT !.pc = wait, !.elapsed = 0, !.deadline = Deadline(wait)]

\* The visit after page.goto (line 493), about to handle consent or, when
\* handle_cmp is false, to wait for readiness.
NewVisitWaits(handle_cmp) ==
    EnterWait([pc |-> "goto", elapsed |-> 0, deadline |-> 0,
               cmp |-> "none", ready |-> "none", page_type |-> "none",
               polled |-> [x \in VisitWaits |-> -1],
               raised |-> {}, timedout |-> {}],
              IF handle_cmp THEN "consent" ELSE "ready")

\* One poll of wait, begun at waiter.elapsed, answered with a.
Polled(w, wait, a) ==
    [w EXCEPT !.polled[wait] = w.elapsed,
              !.raised = IF a = "raise" THEN @ \cup {wait} ELSE @]

\* The loop of wait sleeps and counts its interval.
Slept(w, wait) == [w EXCEPT !.elapsed = @ + Interval(wait)]

\* _dismiss_any_cmp lines 69-98, one round before the deadline: a click
\* succeeds and handle_consent returns (lines 28-30); or nothing is clicked,
\* or the page raises and the exception is caught (lines 94-96, 112-113,
\* 123-124), and the loop sleeps.
WaitsConsentRound ==
    /\ waiter.pc = "consent"
    /\ waiter.elapsed < waiter.deadline
    /\ \E a \in PollAnswers :
          LET w == Polled(waiter, "consent", a)
          IN waiter' = IF a = "signal"
                       THEN EnterWait([w EXCEPT !.cmp = "clicked"], "ready")
                       ELSE Slept(w, "consent")
    /\ cmp_handled' = (cmp_handled \/ waiter'.cmp = "clicked")

\* _dismiss_any_cmp lines 69, 100-101: the deadline has passed, no click.
WaitsConsentTimeout ==
    /\ waiter.pc = "consent"
    /\ waiter.elapsed >= waiter.deadline
    /\ waiter' = EnterWait([waiter EXCEPT !.cmp = "no click",
                                          !.timedout = @ \cup {"consent"}],
                           "ready")
    /\ UNCHANGED cmp_handled

\* wait_for_prebid_and_gpt lines 67-85, one poll: the condition holds and the
\* call returns True; or it does not hold, or evaluate raises and the
\* exception is caught (lines 81-82), and the loop sleeps.
WaitsReadyPoll ==
    /\ waiter.pc = "ready"
    /\ waiter.elapsed < waiter.deadline
    /\ \E a \in PollAnswers :
          LET w == Polled(waiter, "ready", a)
          IN waiter' = IF a = "signal"
                       THEN EnterWait([w EXCEPT !.ready = "True"], "pagetype")
                       ELSE Slept(w, "ready")
    /\ UNCHANGED cmp_handled

\* wait_for_prebid_and_gpt lines 67, 87-91: return False; the visit goes on
\* (framework_manager.py line 501 ignores the value).
WaitsReadyTimeout ==
    /\ waiter.pc = "ready"
    /\ waiter.elapsed >= waiter.deadline
    /\ waiter' = EnterWait([waiter EXCEPT !.ready = "False",
                                          !.timedout = @ \cup {"ready"}],
                           "pagetype")
    /\ UNCHANGED cmp_handled

\* _detect_page_type lines 181-187, one poll: evaluate returns a page type
\* and the call returns it; or returns None and the loop sleeps; or raises,
\* and the exception leaves _detect_page_type and _run_tests_for_url (no
\* try around line 182 nor around line 507).
WaitsPageTypePoll ==
    /\ waiter.pc = "pagetype"
    /\ waiter.elapsed < waiter.deadline
    /\ \E a \in PollAnswers, pt \in PageTypes :
          LET w == Polled(waiter, "pagetype", a)
          IN waiter' = IF a = "signal"
                       THEN [w EXCEPT !.pc = "checks", !.page_type = pt]
                       ELSE IF a = "raise"
                       THEN [w EXCEPT !.pc = "aborted"]
                       ELSE Slept(w, "pagetype")
    /\ UNCHANGED cmp_handled

\* _detect_page_type lines 181, 189: return "unknown"; the visit goes on to
\* the checks (lines 511-551).
WaitsPageTypeTimeout ==
    /\ waiter.pc = "pagetype"
    /\ waiter.elapsed >= waiter.deadline
    /\ waiter' = [waiter EXCEPT !.pc = "checks", !.page_type = "unknown",
                                !.timedout = @ \cup {"pagetype"}]
    /\ UNCHANGED cmp_handled

\* The variables that the waits of a visit do not touch.
notVisitWaits == <<run, config, mpc, browser_manager, pagesOpen, warm, visits,
                   semaphore, results, cmp_calls, consent>>

\* A visit under any run configuration of the three timeouts, with or
\* without consent handling.
InitVisitWaits ==
    /\ run = IdleFrame
    /\ mpc = "idle"
    /\ browser_manager = NewBrowserManager
    /\ pagesOpen = {}
    /\ warm = [idx |-> 0, pc |-> "idle"]
    /\ visits = [i \in Urls |-> NoVisit]
    /\ semaphore = 0
    /\ results = <<>>
    /\ cmp_handled = FALSE
    /\ cmp_calls = <<>>
    /\ consent = NoConsent
    /\ \E ct \in 0..MaxTimeout, rt \in 0..MaxTimeout, pt \in 0..MaxTimeout :
          config = [cmp_timeout |-> ct, prebid_ready_timeout |-> rt,
                    page_type_timeout |-> pt]
    /\ \E handle_cmp \in BOOLEAN : waiter = NewVisitWaits(handle_cmp)

NextVisitWaits ==
    \/ UNCHANGED notVisitWaits /\ WaitsConsentRound
    \/ UNCHANGED notVisitWaits /\ WaitsConsentTimeout
    \/ UNCHANGED notVisitWaits /\ WaitsReadyPoll
    \/ UNCHANGED notVisitWaits /\ WaitsReadyTimeout
    \/ UNCHANGED notVisitWaits /\ WaitsPageTypePoll
    \/ UNCHANGED notVisitWaits /\ WaitsPageTypeTimeout

SpecVisitWaits == InitVisitWaits /\ [][NextVisitWaits]_vars

(***************************************************************************)
(* SpecAuth: TestFramework._add_basic_auth_to_url (framework_manager.py    *)
(* 36-70).  A URL is the record of its parts as urlparse splits it:        *)
(* userinfo and host make up the netloc; "" is a part that is absent.      *)
(* Here config holds the argument and the uat_mode of the run              *)
(* configuration, and results the returned URL.                            *)
(***************************************************************************)
Hosts == {"", "www.independent.co.uk", "uat-web.independent.co.uk"}

UserInfos == {"", "user", "user:pw"}

Paths == {"", "/news/a-story", "/news/developers-strike"}

Queries == {"", "feature=1"}

UrlArgs == [userinfo : UserInfos, host : Hosts, path : Paths, query : Queries]

\* line 47: the tokens that mark a pre-production environment
PreprodTokens == {"uat", "feat", "dev"}

\* The tokens of PreprodTokens that occur in a part, lower-cased.
TokensIn(part) ==
    IF part = "uat-web.independent.co.uk" THEN {"uat"}
    ELSE IF part = "/news/developers-strike" THEN {"dev"}
    ELSE IF part = "feature=1" THEN {"feat"}
    ELSE {}

\* line 41: not url
EmptyUrl(url) == url = [userinfo |-> "", host |-> "", path |-> "", query |-> ""]

\* lines 44-47: any(token in url_l ...), url_l the whole URL lower-cased.
IsPreprodUrl(url) ==
    \E part \in {url.userinfo, url.host, url.path, url.query} :
        TokensIn(part) \cap PreprodTokens # {}

\* line 66: netloc = f"{username}:{password}@{netloc}"; the credentials are
\* put in front of whatever the netloc already holds.
InjectedUserInfo(userinfo) ==
    IF userinfo = "" THEN "demo:review" ELSE "demo:review@" \o userinfo

\* lines 41-70 without the test of lines 59-60
AddBasicAuthToUrlReinjects(url, uat_mode) ==
    IF EmptyUrl(url) THEN url
    ELSE IF ~(IsPreprodUrl(url) \/ uat_mode) THEN url
    ELSE IF url.host = "" THEN url
    ELSE [url EXCEPT !.userinfo = InjectedUserInfo(@)]

\* lines 41-70
AddBasicAuthToUrl(url, uat_mode) ==
    IF EmptyUrl(url) THEN url
    ELSE IF ~(IsPreprodUrl(url) \/ uat_mode) THEN url
    ELSE IF url.userinfo # "" THEN url
    ELSE IF url.host = "" THEN url
    ELSE [url EXCEPT !.userinfo = InjectedUserInfo(@)]

\* line 487: auth_url = self._add_basic_auth_to_url(url)
AddBasicAuth ==
    /\ UNCHANGED <<run, config, mpc, browser_manager, pagesOpen, warm, visits,
                   semaphore, cmp_handled, cmp_calls, consent, waiter>>
    /\ results = <<>>
    /\ results' = <<AddBasicAuthToUrl(config.url, config.uat_mode)>>

\* The function applied to the URL it returned: the URL a load was given is
\* rewritten again (lines 448 and 487 both rewrite before loading).
AddBasicAuthAgain ==
    /\ UNCHANGED <<run, config, mpc, browser_manager, pagesOpen, warm, visits,
                   semaphore, cmp_handled, cmp_calls, consent, waiter>>
    /\ results # <<>>
    /\ Len(results) < MaxCalls
    /\ results' = Append(results,
                         AddBasicAuthToUrl(results[Len(results)], config.uat_mode))

InitAuth ==
    /\ run = IdleFrame
    /\ \E url \in UrlArgs, uat_mode \in BOOLEAN :
          config = [url |-> url, uat_mode |-> uat_mode]
    /\ mpc = "idle"
    /\ browser_manager = NewBrowserManager
    /\ pagesOpen = {}
    /\ warm = [idx |-> 0, pc |-> "idle"]
    /\ visits = [i \in Urls |-> NoVisit]
    /\ semaphore = 0
    /\ results = <<>>
    /\ cmp_handled = FALSE
    /\ cmp_calls = <<>>
    /\ consent = NoConsent
    /\ waiter = NoWaiter

NextAuth ==
    \/ AddBasicAuth
    \/ AddBasicAuthAgain

SpecAuth == InitAuth /\ [][NextAuth]_vars

(***************************************************************************)
(* SpecFlag: the CMPHandler of one TestFramework over several run_tests    *)
(* invocations (cmp_handler.py 15-34, framework_manager.py 24-32).  The    *)
(* handler is made once, in TestFramework.__init__ (line 29); every        *)
(* run_tests starts a browser session (line 613) and closes it with its    *)
(* pages (line 701).  Callers call handle_consent or dismiss_cmp on a page  *)
(* of the running session, which is named by the number of the session.    *)
(***************************************************************************)
\* dismiss_cmp (lines 33-34) enters _dismiss_any_cmp whatever cmp_handled is.
DismissCmp(c, p) ==
    /\ consent[c].pc = "idle"
    /\ Len(cmp_calls) < MaxCalls
    /\ cmp_calls' = Append(cmp_calls, <<"dismiss", p>>)
    /\ consent' = [consent EXCEPT ![c] =
                      [pc |-> "dismiss", page |-> p, rounds |-> 0,
                       late |-> Clicked, ret |-> "none"]]
    /\ UNCHANGED cmp_handled

\* _dismiss_any_cmp lines 69-98 under dismiss_cmp, one round: a click
\* succeeds and dismiss_cmp returns True to its caller (line 34), or nothing
\* is clicked and the call sleeps.
DismissRound(c) ==
    /\ consent[c].pc = "dismiss"
    /\ consent[c].rounds < MaxRounds
    /\ \/ /\ consent' = [consent EXCEPT ![c].pc = "idle", ![c].ret = "True",
                                        ![c].rounds = @ + 1]
          /\ cmp_calls' = Append(cmp_calls, <<"dismissed", consent[c].page>>)
       \/ /\ consent' = [consent EXCEPT ![c].rounds = @ + 1]
          /\ UNCHANGED cmp_calls
    /\ UNCHANGED cmp_handled

\* _dismiss_any_cmp lines 69, 100-101 under dismiss_cmp: return False.
DismissTimeout(c) ==
    /\ consent[c].pc = "dismiss"
    /\ consent' = [consent EXCEPT ![c].pc = "idle", ![c].ret = "False"]
    /\ UNCHANGED <<cmp_handled, cmp_calls>>

\* The variables that SpecFlag leaves alone.
notFlag == <<run, config, mpc, pagesOpen, warm, visits, semaphore, results, waiter>>

\* A run_tests invocation that makes a new CMPHandler for its session.
FlagNewRunResets ==
    /\ UNCHANGED <<notFlag, consent, cmp_calls>>
    /\ \A c \in Callers : consent[c].pc = "idle"
    /\ browser_manager.startCalls < MaxRuns
    /\ browser_manager' =
          BmStart(IF browser_manager.browser THEN BmClose(browser_manager)
                  ELSE browser_manager)
    /\ cmp_handled' = FALSE

\* The next run_tests invocation on the same TestFramework: the session of
\* the one before is closed with its pages (line 701) and a new one started
\* (line 613); self.cmp_handler is the object made in __init__.
FlagNewRun ==
    /\ UNCHANGED <<notFlag, consent, cmp_calls>>
    /\ \A c \in Callers : consent[c].pc = "idle"
    /\ browser_manager.startCalls < MaxRuns
    /\ browser_manager' =
          BmStart(IF browser_manager.browser THEN BmClose(browser_manager)
                  ELSE browser_manager)
    /\ cmp_handled' = cmp_handled

FlagCall ==
    /\ UNCHANGED <<notFlag, browser_manager>>
    /\ browser_manager.browser
    /\ \E c \in Callers : HandleConsent(c, browser_manager.startCalls)

FlagDismiss ==
    /\ UNCHANGED <<notFlag, browser_manager>>
    /\ browser_manager.browser
    /\ \E c \in Callers : DismissCmp(c, browser_manager.startCalls)

FlagRound ==
    /\ UNCHANGED <<notFlag, browser_manager>>
    /\ \E c \in Callers : SearchRound(c) \/ DismissRound(c)

FlagTimeout ==
    /\ UNCHANGED <<notFlag, browser_manager>>
    /\ \E c \in Callers : SearchTimeout(c) \/ DismissTimeout(c)

\* TestFramework.__init__ (lines 24-32): CMPHandler.__init__ sets cmp_handled
\* to False; no run_tests invocation has started a session yet.
InitFlag == InitCmp

NextFlag ==
    \/ FlagNewRun
    \/ FlagCall
    \/ FlagDismiss
    \/ FlagRound
    \/ FlagTimeout

SpecFlag == InitFlag /\ [][NextFlag]_vars

(***************************************************************************)
(* SpecInst: the check instances of a run (framework_manager.py 539-551).  *)
(* Here run is the set of the instances made so far, each with the locale  *)
(* attribute it carries, the locale its setup has read and the run calls   *)
(* made on it; visits holds per URL the position in the loop over the      *)
(* allowed classes.  In parallel mode the visits interleave at the awaits  *)
(* inside run; in sequential mode a visit starts when the one before it    *)
(* has ended.  config holds the locale detected for each URL and the       *)
(* classes whose constructor raises.                                       *)
(***************************************************************************)
Locales == {"UK", "US"}

\* A visit before its loop over run_classes, in it, and after it.
InstVisit(pc, ci) == [pc |-> pc, ci |-> ci]

\* test = cls(self.config) (line 541): a new object, named by the URL and
\* the position in run_classes it was made for.
NewInstance(i, ci) ==
    [id |-> <<i, ci>>, cls |-> config.tests[ci], locale |-> "unset",
     seen |-> "none", users |-> {}, setups |-> 0]

\* setattr(test, "locale", locale) (lines 544-547)
SetLocale(inst, locale) == [inst EXCEPT !.locale = locale]

\* test.run(page, url) is called on the instance (line 550) for URL i and
\* position ci.
RunCalled(inst, i, ci) == [inst EXCEPT !.users = @ \cup {<<i, ci>>}]

\* The instance a visit takes from a cache of one instance per class.
InstanceForShared(i, ci) ==
    IF \E x \in run : x.cls = config.tests[ci]
    THEN CHOOSE x \in run : x.cls = config.tests[ci]
    ELSE NewInstance(i, ci)

\* line 541: the instance the loop works with for URL i at position ci.
InstanceFor(i, ci) == NewInstance(i, ci)

\* lines 539-550 up to the first await inside run: the class is constructed
\* (the constructor raising ends the visit), locale is set and run called.
InstConstruct(i) ==
    /\ visits[i].pc = "construct"
    /\ LET ci == visits[i].ci
           inst == InstanceFor(i, ci)
       IN IF config.tests[ci] \in config.ctor_raises
          THEN /\ visits' = [visits EXCEPT ![i].pc = "failed"]
               /\ run' = run
          ELSE /\ visits' = [visits EXCEPT ![i].pc = "setup"]
               /\ run' = (run \ {inst}) \cup
                            {RunCalled(SetLocale(inst, config.locale[i]), i, ci)}

\* The instance URL i is running at its position.
Current(i) == CHOOSE x \in run : <<i, visits[i].ci>> \in x.users

\* base_test.py line 82: await self.setup(page, url), which reads self.locale
InstSetup(i) ==
    /\ visits[i].pc = "setup"
    /\ LET inst == Current(i)
       IN run' = (run \ {inst}) \cup
                     {[inst EXCEPT !.seen = inst.locale, !.setups = @ + 1]}
    /\ visits' = [visits EXCEPT ![i].pc = "running"]

\* lines 550-567 and the loop: run returns or raises, the instance is dropped
\* and the next class is taken; after the last one the visit ends and, in
\* sequential mode, the next URL's visit starts.
InstReturn(i) ==
    /\ visits[i].pc = "running"
    /\ run' = run
    /\ LET last == visits[i].ci = Len(config.tests)
       IN visits' = [j \in Urls |->
                        IF j = i
                        THEN (IF last THEN InstVisit("done", visits[i].ci)
                              ELSE InstVisit("construct", visits[i].ci + 1))
                        ELSE IF /\ j = i + 1 /\ last /\ j <= config.nurls
                                /\ ~config.parallel_tests
                             THEN InstVisit("construct", 1)
                             ELSE visits[j]]

\* The variables that SpecInst leaves alone.
notInst == <<config, mpc, browser_manager, pagesOpen, warm, semaphore, results,
             cmp_handled, cmp_calls, consent, waiter>>

\* A run with its URLs, its allowed classes and the locale detected per URL;
\* the visits of parallel mode have all reached the loop, of sequential
\* mode the first one has.
InitInst ==
    /\ run = {}
    /\ \E n \in 1..MaxUrls, par \in BOOLEAN, k \in 1..MaxChecks,
          loc \in [Urls -> Locales], bad \in SUBSET CheckIds :
          /\ Cardinality(bad) <= 1
          /\ config = [nurls |-> n, parallel_tests |-> par,
                       tests |-> [j \in 1..k |-> j], locale |-> loc,
                       ctor_raises |-> bad]
          /\ visits = [i \in Urls |->
                          IF i <= n /\ (par \/ i = 1)
                          THEN InstVisit("construct", 1)
                          ELSE InstVisit("idle", 0)]
    /\ mpc = "idle"
    /\ browser_manager = NewBrowserManager
    /\ pagesOpen = {}
    /\ warm = [idx |-> 0, pc |-> "idle"]
    /\ semaphore = 0
    /\ results = <<>>
    /\ cmp_handled = FALSE
    /\ cmp_calls = <<>>
    /\ consent = NoConsent
    /\ waiter = NoWaiter

NextInst ==
    \/ UNCHANGED notInst /\ \E i \in Urls : InstConstruct(i)
    \/ UNCHANGED notInst /\ \E i \in Urls : InstSetup(i)
    \/ UNCHANGED notInst /\ \E i \in Urls : InstReturn(i)

SpecInst == InitInst /\ [][NextInst]_vars

(***************************************************************************)
(* SpecLog: the output of the visits of a run (framework_manager.py        *)
(* 477-586).  Here results is standard output, one entry per line with the *)
(* visit it belongs to, and visits holds per URL the position of the visit *)
(* and its log buffer.  In parallel mode visits interleave at every await. *)
(***************************************************************************)
\* A visit at position pc with its buffer (lines 478-482).
LogVisit(pc, log) == [pc |-> pc, log |-> log]

\* A line of output of visit i.
Line(i, text) == [visit |-> i, text |-> text]

\* logprint (lines 480-482): the line is appended to the visit's buffer.
LogPrint(v, i, text) == [v EXCEPT ![i].log = Append(@, Line(i, text))]

\* print (lines 112, 117, 584; readiness_waiter.py 76, 87): the lines go to
\* standard output at once.
PrintLines(lines) == results \o lines

\* lines 484-490: "Processing" is buffered, then the cookies are awaited.
LogStart(i) ==
    /\ visits[i].pc = "start"
    /\ visits' = [LogPrint(visits, i, "processing") EXCEPT ![i].pc = "cookies"]
    /\ results' = results

\* _set_context_cookies lines 110-117: after add_cookies returned or raised
\* the outcome is printed.
LogCookies(i) ==
    /\ visits[i].pc = "cookies"
    /\ \E text \in {"cookies set", "cookies failed"} :
          results' = PrintLines(<<Line(i, text)>>)
    /\ visits' = [visits EXCEPT ![i].pc = "ready"]

\* line 501 and readiness_waiter.py lines 76-79, 87-90: the wait prints its
\* result when it ends.
LogReady(i) ==
    /\ visits[i].pc = "ready"
    /\ \E text \in {"ready", "timeout"} :
          results' = PrintLines(<<Line(i, text)>>)
    /\ visits' = [visits EXCEPT ![i].pc = "detect"]

\* lines 507-512: page type and locale are buffered.
LogDetect(i) ==
    /\ visits[i].pc = "detect"
    /\ visits' = [LogPrint(visits, i, "page type, locale") EXCEPT
                     ![i].pc = "checks"]
    /\ results' = results

\* lines 540-586: the checks' lines and "done" are buffered, and the block
\* is printed with one call: header, buffer, footer.
LogFlush(i) ==
    /\ visits[i].pc = "checks"
    /\ LET v == LogPrint(LogPrint(visits, i, "checks"), i, "done")
       IN /\ results' = PrintLines(<<Line(i, "header")>> \o v[i].log
                                   \o <<Line(i, "footer")>>)
          /\ visits' = [j \in Urls |->
                           IF j = i THEN LogVisit("done", v[i].log)
                           ELSE IF /\ j = i + 1 /\ j <= config.nurls
                                   /\ ~config.parallel_tests
                                THEN LogVisit("start", <<>>)
                                ELSE visits[j]]

\* The variables that SpecLog leaves alone.
notLog == <<run, config, mpc, browser_manager, pagesOpen, warm, semaphore,
            cmp_handled, cmp_calls, consent, waiter>>

\* A run in either mode: the visits of parallel mode have all begun, of
\* sequential mode the first one has.
InitLog ==
    /\ run = IdleFrame
    /\ \E n \in 1..MaxUrls, par \in BOOLEAN :
          /\ config = [nurls |-> n, parallel_tests |-> par]
          /\ visits = [i \in Urls |->
                          IF i <= n /\ (par \/ i = 1)
                          THEN LogVisit("start", <<>>)
                          ELSE LogVisit("idle", <<>>)]
    /\ mpc = "idle"
    /\ browser_manager = NewBrowserManager
    /\ pagesOpen = {}
    /\ warm = [idx |-> 0, pc |-> "idle"]
    /\ semaphore = 0
    /\ results = <<>>
    /\ cmp_handled = FALSE
    /\ cmp_calls = <<>>
    /\ consent = NoConsent
    /\ waiter = NoWaiter

NextLog ==
    \/ UNCHANGED notLog /\ \E i \in Urls : LogStart(i)
    \/ UNCHANGED notLog /\ \E i \in Urls : LogCookies(i)
    \/ UNCHANGED notLog /\ \E i \in Urls : LogReady(i)
    \/ UNCHANGED notLog /\ \E i \in Urls : LogDetect(i)
    \/ UNCHANGED notLog /\ \E i \in Urls : LogFlush(i)

SpecLog == InitLog /\ [][NextLog]_vars

(***************************************************************************)
(* SpecDisc: the discovery of the checks, by TestFramework.discover_tests  *)
(* (framework_manager.py 364-398) and by framework.discovery's function    *)
(* discover_tests (discovery.py 54-90).  Here config holds the test        *)
(* modules in the order _iter_test_module_names yields them: the category  *)
(* of a module's folder, the names of the BaseTest subclasses it defines   *)
(* and whether it can be imported.  A class is the pair of its module and  *)
(* its name.  results is the registry of the framework (self.tests and     *)
(* self.test_categories), waiter the pair the function returned, and warm  *)
(* tells which of the two has run.                                         *)
(***************************************************************************)
\* The class names a module may define, as inspect.getmembers orders them.
ClassNames == <<"AdSlotsTest", "BidderTest">>

\* A module under tests/.
TestModules ==
    [category : Categories, classes : SUBSET {ClassNames[j] : j \in DOMAIN ClassNames}, imports : BOOLEAN]

\* The lists of modules under tests/.
ModuleLists == UNION {[1..n -> TestModules] : n \in 0..MaxModules}

\* framework_manager.py 26-27, 369-370; discovery.py 62-63: {} and {}
EmptyRegistry == [tests |-> <<>>, test_categories |-> <<>>]

\* inspect.getmembers(test_module, inspect.isclass), filtered by lines
\* 390-394: the module's own subclasses of BaseTest, sorted by name.
MembersOf(module) == SelectSeq(ClassNames, LAMBDA n : n \in module.classes)

\* d[k] = v on a dict.
SetItem(d, k, v) == [x \in DOMAIN d \cup {k} |-> IF x = k THEN v ELSE d[x]]

RECURSIVE RegisterClasses(_, _, _, _)
\* framework_manager.py 389-398: self.tests[name] = obj and
\* self.test_categories[category].append(name) for each member in turn.
RegisterClasses(reg, m, category, names) ==
    IF names = <<>> THEN reg
    ELSE LET name == Head(names)
             tests == SetItem(reg.tests, name, [module |-> m, name |-> name])
             cats == [reg.test_categories EXCEPT ![category] = Append(@, name)]
         IN RegisterClasses([tests |-> tests, test_categories |-> cats],
                            m, category, Tail(names))

RECURSIVE FrameworkDiscover(_, _, _)
\* framework_manager.py 372-398: the loop over the modules from the m-th on.
FrameworkDiscover(reg, modules, m) ==
    IF m > Len(modules) THEN reg
    ELSE IF ~modules[m].imports THEN FrameworkDiscover(reg, modules, m + 1)
    ELSE LET category == modules[m].category
             cats == SetDefault(reg.test_categories, category, <<>>)
         IN FrameworkDiscover(
                RegisterClasses([reg EXCEPT !.test_categories = cats], m,
                                category, MembersOf(modules[m])),
                modules, m + 1)

RECURSIVE CollectClasses(_, _, _, _)
\* discovery.py 82-90: tests[name] = obj and
\* test_categories[category].append(name) for each member in turn.
CollectClasses(reg, m, category, names) ==
    IF names = <<>> THEN reg
    ELSE LET name == Head(names)
             tests == SetItem(reg.tests, name, [module |-> m, name |-> name])
             cats == [reg.test_categories EXCEPT ![category] = Append(@, name)]
         IN CollectClasses([tests |-> tests, test_categories |-> cats],
                           m, category, Tail(names))

RECURSIVE FunctionDiscover(_, _, _)
\* discovery.py 65-90: the loop over the modules from the m-th on.
FunctionDiscover(reg, modules, m) ==
    IF m > Len(modules) THEN reg
    ELSE IF ~modules[m].imports THEN FunctionDiscover(reg, modules, m + 1)
    ELSE LET category == modules[m].category
             cats == SetDefault(reg.test_categories, category, <<>>)
         IN FunctionDiscover(
                CollectClasses([reg EXCEPT !.test_categories = cats], m,
                               category, MembersOf(modules[m])),
                modules, m + 1)

\* framework_manager.py 400-403: get_tests_by_category on a registry;
\* discovery.py 94-103 adds "if name in tests", which every listed name
\* passes.
CategoryTests(reg, category) ==
    IF Upper(category) \in DOMAIN reg.test_categories
    THEN LET names == reg.test_categories[Upper(category)]
         IN [j \in 1..Len(names) |-> reg.tests[names[j]]]
    ELSE <<>>

\* Every variable but config, results, waiter and warm.
notDisc == <<run, mpc, browser_manager, pagesOpen, visits, semaphore,
             cmp_handled, cmp_calls, consent>>

\* framework_manager.py 364-398, as main.py line 24 calls it
DiscoverTests ==
    /\ ~warm.framework
    /\ results' = FrameworkDiscover(EmptyRegistry, config.modules, 1)
    /\ warm' = [warm EXCEPT !.framework = TRUE]
    /\ UNCHANGED <<config, waiter>>

\* discovery.py 54-90
DiscoveryDiscoverTests ==
    /\ ~warm.function
    /\ waiter' = FunctionDiscover(EmptyRegistry, config.modules, 1)
    /\ warm' = [warm EXCEPT !.function = TRUE]
    /\ UNCHANGED <<config, results>>

InitDisc ==
    /\ run = IdleFrame
    /\ \E modules \in ModuleLists : config = [modules |-> modules]
    /\ mpc = "idle"
    /\ browser_manager = NewBrowserManager
    /\ pagesOpen = {}
    /\ warm = [framework |-> FALSE, function |-> FALSE]
    /\ visits = [i \in Urls |-> NoVisit]
    /\ semaphore = 0
    /\ results = EmptyRegistry
    /\ cmp_handled = FALSE
    /\ cmp_calls = <<>>
    /\ consent = NoConsent
    /\ waiter = EmptyRegistry

NextDisc ==
    \/ UNCHANGED notDisc /\ DiscoverTests
    \/ UNCHANGED notDisc /\ DiscoveryDiscoverTests

SpecDisc == InitDisc /\ [][NextDisc]_vars

(***************************************************************************)
(* Claims about BaseTest.run, checked under SpecRun.                       *)
(***************************************************************************)
\* C1: for every combination of phase behaviours, when run has ended cleanup
\* was called exactly once if setup returned true and never otherwise.
C1_CleanupIffSetupTrue ==
    (RunEnded(run) /\ Contract(run.beh)) =>
        run.calls.cleanup = (IF run.setupRet = "true" THEN 1 ELSE 0)

\* C2: every run call of a check that keeps the check contract returns (it
\* does not raise) one outcome, and that outcome's state is terminal.
C2_ReturnsOneTerminalOutcome ==
    (RunEnded(run) /\ Contract(run.beh)) =>
        /\ run.pc = "returned"
        /\ ~IsNone(run.result)
        /\ run.result.state \in TerminalStates

C2_Witness ==
    /\ run.pc = "returned"
    /\ Contract(run.beh)
    /\ run.calls.validate = 1
    /\ run.result.state = "FAILED"

\* C3: when setup returned false, run returns an outcome in state SKIPPED
\* with no errors, and execute, validate and cleanup were not called.
C3_SetupFalseSkips ==
    (RunEnded(run) /\ run.setupRet = "false") =>
        /\ run.pc = "returned"
        /\ run.result.state = "SKIPPED"
        /\ run.result.errors = <<>>
        /\ run.calls.execute = 0
        /\ run.calls.validate = 0
        /\ run.calls.cleanup = 0

C3_Witness ==
    /\ run.pc = "returned"
    /\ run.setupRet = "false"
    /\ run.calls.setup = 1

\* The phases that come after phase p in run.
LaterPhases(p) ==
    CASE p = "setup" -> {"execute", "validate", "cleanup"}
      [] p = "execute" -> {"validate", "cleanup"}
      [] p = "validate" -> {"cleanup"}
      [] OTHER -> {}

C5_CleanupExceptionSwallowed ==
    (RunEnded(run) /\ Contract(run.beh) /\ run.raisedIn = "cleanup") =>
        /\ run.pc = "returned"
        /\ run.result.state = run.validated.state
        /\ run.result.errors = run.validated.errors

\* The state order PENDING -> RUNNING -> terminal: s may be followed by t.
Forward(s, t) ==
    \/ s = t
    \/ s = "PENDING" /\ t = "RUNNING"
    \/ s = "RUNNING" /\ t \in TerminalStates

\* C6: during one run call of a check that keeps the contract, the state of
\* the check's current outcome only moves forward PENDING -> RUNNING ->
\* terminal, and a terminal state is never changed.
C6_StateOnlyForward ==
    [][(run.pc \notin {"idle", "returned", "raised"} /\ Contract(run.beh))
          => Forward(run.result.state, run'.result.state)]_vars

(***************************************************************************)
(* Claims about run_tests and _run_tests_for_url, checked under Spec.      *)
(***************************************************************************)
\* _run_tests_for_url has returned its url_results for URL i.
VisitReturned(i) ==
    \/ visits[i].pc = "done"
    \/ visits[i].pc = "closepage" /\ ~visits[i].raising

\* url_results of URL i holds an outcome of check c.
Recorded(i, c) ==
    \E j \in 1..Len(visits[i].out) : visits[i].out[j].test_name = c

\* C7: when a check's run call raised during a visit, the visit's outcome
\* list holds an outcome of that check in state ERROR with an error text,
\* and every other allowed check of the URL was run and recorded.
C7_RunExceptionRecordedAsError ==
    \A i \in 1..config.nurls :
        VisitReturned(i) =>
            \A k \in 1..Len(config.tests) :
                IF config.kinds[config.tests[k]] = "runraise"
                THEN \E j \in 1..Len(visits[i].out) :
                        /\ visits[i].out[j].test_name = config.tests[k]
                        /\ visits[i].out[j].state = "ERROR"
                        /\ Len(visits[i].out[j].errors) > 0
                ELSE Recorded(i, config.tests[k])

\* The task of URL i ended because new_page raised (no visit took place).
NewPageFailed(i) == visits[i].pc = "failed" /\ ~visits[i].raising

\* C8: an exception raised inside a page visit does not leave run_tests:
\* whenever some visit raised (and no new_page call failed), run_tests has
\* not ended with an exception.
C8_VisitFailureContained ==
    ((\E i \in 1..config.nurls : visits[i].raising)
        /\ (\A i \in 1..config.nurls : ~NewPageFailed(i)))
    => mpc # "raised"

\* C9: browser_manager.close is called at most once, with URLs configured
\* only when every visit has finished, and a run_tests call that started the
\* browser and returned has called it exactly once, leaving no page open.
C9_ClosedOnceAfterVisits ==
    /\ browser_manager.closeCalls <= 1
    /\ browser_manager.closeCalls = 1 =>
          /\ \A i \in 1..config.nurls : visits[i].pc = "done"
          /\ warm.pc \in {"idle", "done"}
          /\ pagesOpen = {}
          /\ mpc \in {"report", "returned"}
    /\ (mpc = "returned" /\ browser_manager.startCalls > 0) =>
          /\ browser_manager.closeCalls = 1
          /\ ~browser_manager.browser
          /\ Len(results) = Len(Gathered(visits, config.nurls))

C9_Witness ==
    /\ mpc = "returned"
    /\ config.parallel_tests
    /\ config.nurls = 2
    /\ WarmupPages = 1
    /\ browser_manager.closeCalls = 1
    /\ Len(results) > 0

\* C10: when run_tests ended with an exception after the browser had been
\* started, browser_manager.close has been called and no task of parallel
\* mode still holds an open page.
C10_TeardownOnAbort ==
    (mpc = "raised" /\ browser_manager.context) =>
        /\ browser_manager.closeCalls >= 1
        /\ \A i \in 1..config.nurls : i \notin pagesOpen

(***************************************************************************)
(* Claims about the site plan, checked under SpecPlan.                     *)
(***************************************************************************)
\* The outcomes recorded so far: run_tests' results and every visit's
\* url_results.
Outcomes ==
    {results[j] : j \in 1..Len(results)} \cup
        UNION {{visits[i].out[j] : j \in 1..Len(visits[i].out)} : i \in Urls}

\* C11: when the plan of the active site lists check X in its global exclude
\* list, no outcome whose test_name is X is recorded for any URL, whatever
\* page type is detected and in either concurrency mode, X being the name
\* the check is registered and reported under (its class name).
C11_GloballyExcludedNeverReported ==
    \A x \in CheckIds :
        (config.site_plan.entry /\ config.site_plan.has_exclude
            /\ x \in config.site_plan.exclude)
        => \A o \in Outcomes : o.test_name # x

\* The names of the outcomes in visit i's url_results.
Ran(i) == {visits[i].out[j].test_name : j \in 1..Len(visits[i].out)}

\* The selected checks.
Selected == {config.tests[k] : k \in 1..Len(config.tests)}

\* C12: for every plan shape and detected page type, a visit that returned
\* has run the selected checks minus (global exclusions UNION exclusions of
\* the detected page type), and every selected check when the site has no
\* plan entry; stated for checks known to the plan filter by their class
\* name.
C12_RunSetIsSelectedMinusExclusions ==
    \A i \in 1..config.nurls :
        (visits[i].pc = "done" /\ \A cls \in Selected : ClassName(cls) = cls)
        => Ran(i) = Selected \ Disallowed(i)

(***************************************************************************)
(* Claims about CMPHandler, checked under SpecCmp.                         *)
(***************************************************************************)
\* C13: once a handle_consent call has clicked a consent control, every
\* handle_consent call made afterwards on the same CMPHandler returns at
\* once: it tries no selector and clicks nothing, on any page.
C13_NoSearchAfterSuccess ==
    \A c \in Callers :
        consent[c].late =>
            /\ consent[c].pc = "idle"
            /\ consent[c].ret = "immediate"
            /\ consent[c].rounds = 0

C13_Witness ==
    \E c \in Callers :
        /\ consent[c].late
        /\ consent[c].ret = "immediate"
        /\ \E j \in 1..Len(cmp_calls) :
              cmp_calls[j][1] = "click" /\ cmp_calls[j][2] # consent[c].page

(***************************************************************************)
(* Claims about ReadinessWaiter, checked under SpecWait.                   *)
(***************************************************************************)
\* C14: a call of wait_for_prebid_and_gpt never raises; when the condition
\* becomes true at a time t < timeout and stays true the call returns True
\* at or after t and before the timeout; when the condition never becomes
\* true the call returns False at or after the timeout.  Stated for a page
\* whose evaluate answers at once and never raises.
C14_ReadyBeforeTimeoutReturnsTrue ==
    (waiter.pc = "returned" /\ ~waiter.slow /\ ~waiter.caught) =>
        /\ ~waiter.raised
        /\ (waiter.ever /\ waiter.ready_at < waiter.timeout) =>
              /\ waiter.ret
              /\ waiter.now >= waiter.ready_at
              /\ waiter.now < waiter.timeout
        /\ ~waiter.ever =>
              /\ ~waiter.ret
              /\ waiter.now >= waiter.timeout

(***************************************************************************)
(* Claims about run_tests, checked under Spec.                             *)
(***************************************************************************)
RECURSIVE UrlResults(_, _)
\* lines 537-586: the url_results of a visit of URL i that returns, after
\* the first k of its classes.
UrlResults(i, k) ==
    IF k = 0 THEN <<>>
    ELSE LET cls == RunClasses(i)[k]
         IN AfterRun(UrlResults(i, k - 1),
                     RunToEnd(NewFrame(cls, i, KindBehaviour(config.kinds[cls]))))

RECURSIVE SequentialResults(_)
\* lines 659-668: what the sequential loop over the first n URLs collects,
\* one visit after the other.
SequentialResults(n) ==
    IF n = 0 THEN <<>>
    ELSE SequentialResults(n - 1) \o UrlResults(n, Len(RunClasses(n)))

Triple(o) == <<o.test_name, o.url, o.state>>

Count(seq, t) == Cardinality({j \in 1..Len(seq) : Triple(seq[j]) = t})

SameTriples(a, b) ==
    \A t \in {Triple(a[j]) : j \in 1..Len(a)} \cup {Triple(b[j]) : j \in 1..Len(b)} :
        Count(a, t) = Count(b, t)

\* C15: for the same URLs, checks and page behaviour, a run that returns
\* returns in parallel mode, with any width >= 1, the same multiset of
\* (check name, URL, terminal state) triples as the sequential loop.
C15_ModesReturnSameTriples ==
    mpc = "returned" => SameTriples(results, SequentialResults(config.nurls))

C15_Witness ==
    /\ mpc = "returned"
    /\ config.parallel_tests
    /\ config.nurls = MaxUrls
    /\ Len(results) >= 2
    /\ results[1].state # results[Len(results)].state

RECURSIVE AllowedPairs(_)
\* The (URL, check) pairs of the first n URLs in URL order, each URL's in
\* the order of the selected checks that the plan allows.
AllowedPairs(n) ==
    IF n = 0 THEN <<>>
    ELSE AllowedPairs(n - 1) \o
            [k \in 1..Len(RunClasses(n)) |-> <<n, RunClasses(n)[k]>>]

\* C16: the returned list is the concatenation in URL order of the URLs'
\* outcome lists, each in the order of the selected checks, in both modes;
\* it holds one outcome per URL and allowed check (N*K outcomes).
C16_OneOutcomePerUrlAndCheckInOrder ==
    mpc = "returned" =>
        [j \in 1..Len(results) |-> <<results[j].url, results[j].test_name>>]
            = AllowedPairs(config.nurls)

\* The tasks of parallel mode exist (lines 692-695).
TasksCreated ==
    config.parallel_tests /\ \E i \in 1..config.nurls : visits[i].pc # "idle"

\* Task i holds a permit: it is inside `async with semaphore` (line 678).
HoldsPermit(i) ==
    visits[i].pc \in {"newpage", "cookies", "goto", "consent", "ready", "slots",
                      "pagetype", "locale", "checks", "closepage"}

\* Task i has ended, with a result or an exception.
TaskEnded(i) == visits[i].pc \in {"done", "failed"}

\* C17: in parallel mode with width c at most c visits hold a permit at any
\* moment, the permits held and the permits available add up to c, a task's
\* page is open only while the task holds a permit, is its own page and is
\* opened after the permit was acquired; once all tasks have ended, with a
\* result or an exception, no task page is open and all c permits are
\* available.
C17_PermitsBoundVisitsAndAreReturned ==
    TasksCreated =>
        LET holders == {i \in 1..config.nurls : HoldsPermit(i)}
        IN /\ Cardinality(holders) <= config.concurrency
           /\ semaphore + Cardinality(holders) = config.concurrency
           /\ \A i \in 1..config.nurls :
                 /\ visits[i].page \subseteq {i}
                 /\ (mpc = "gather" /\ i \in pagesOpen) =>
                        HoldsPermit(i) /\ visits[i].page = {i}
                 /\ (mpc = "gather" /\ TaskEnded(i)) => i \notin pagesOpen
           /\ (\A i \in 1..config.nurls : TaskEnded(i)) =>
                 /\ pagesOpen \cap Urls = {}
                 /\ semaphore = config.concurrency

C17_Witness ==
    /\ TasksCreated
    /\ config.nurls > config.concurrency
    /\ \A i \in 1..config.nurls : TaskEnded(i)
    /\ \E i \in 1..config.nurls : visits[i].pc = "failed" /\ visits[i].raising
    /\ \E i \in 1..config.nurls : visits[i].pc = "failed" /\ ~visits[i].raising
    /\ semaphore = config.concurrency

C19_WarmupRecordsNothing ==
    /\ mpc \in {"warm_newpage", "warmup"} =>
          results = <<>> /\ \A i \in Urls : visits[i] = NoVisit
    /\ mpc = "returned" =>
          /\ results = SequentialResults(config.nurls)
          /\ browser_manager.startCalls > 0 =>
                \A i \in 1..config.nurls : visits[i].pc = "done"

C19_Witness ==
    /\ mpc = "returned"
    /\ WarmupPages = config.nurls
    /\ config.nurls > 0
    /\ Len(results) > 0
    /\ Len(results) = config.nurls * Len(config.tests)

\* Visit i is in flight: _run_tests_for_url has been called and has not
\* ended.
InFlight(i) == visits[i].pc \notin {"idle", "done", "failed"}

\* C20: in sequential mode one page is created per run, the warm-up page
\* when a warm-up ran and else a new page, every visit works on that page,
\* the visits happen in URL order and no two are in flight at once.
C20_SequentialUsesOnePage ==
    ~config.parallel_tests =>
        /\ browser_manager.newPages <= 1
        /\ pagesOpen \subseteq {0}
        /\ \A i \in Urls :
              visits[i].pc # "idle" =>
                  /\ visits[i].page = {0}
                  /\ browser_manager.newPages = 1
                  /\ \A j \in 1..(i - 1) : visits[j].pc = "done"
                  /\ InFlight(i) => 0 \in pagesOpen
        /\ Cardinality({i \in Urls : InFlight(i)}) <= 1

C20_Witness ==
    /\ ~config.parallel_tests
    /\ warm.pc = "done"
    /\ config.nurls > 1
    /\ InFlight(config.nurls)
    /\ browser_manager.newPages = 1

(***************************************************************************)
(* Claims about the consent search, checked under SpecSel.                 *)
(***************************************************************************)
\* C21: within each round of the consent search the selectors are tried in
\* the order site-specific CSS, generic CSS, XPath, each list on the
\* top-level document and then on every child frame in document order before
\* the next list; the first click that succeeds ends the search and nothing
\* is tried after it.
C21_AttemptsInListMajorOrder ==
    /\ \A k \in 1..Len(consent.tried) :
          /\ k <= 3 * (consent.frames + 1)
          /\ consent.tried[k] = ListMajorAttempt(consent.frames, k)
    /\ \A k \in 1..(Len(consent.tried) - 1) : consent.tried[k] \notin consent.matches
    /\ consent.ret = "clicked" => consent.tried[Len(consent.tried)] \in consent.matches

(***************************************************************************)
(* Claims about the outcome's metadata, checked under SpecMeta.            *)
(***************************************************************************)
\* The dict that the returned outcome's metadata stands for.
GivenMetadata ==
    IF config.returned.metadata = MetaNone THEN EmptyDict
    ELSE config.returned.metadata

Selected23 == mpc # "select"

\* The elements of a sequence.
Range(s) == {s[j] : j \in 1..Len(s)}

\* C23: with names given (a non-empty list) the selected checks are exactly
\* the given names that are in the registry, missing names dropped; else
\* with a category given exactly the checks registered under that category;
\* else every registered check.  When nothing is selected run_tests returns
\* an empty list, the browser never started and no URL visited.
C23_SelectionByNamesCategoryOrAll ==
    Selected23 =>
        /\ IF Len(config.test_names) > 0
           THEN /\ Range(config.tests) = Range(config.test_names) \cap config.registered
                /\ Len(config.tests) =
                      Cardinality({j \in 1..Len(config.test_names) :
                                      config.test_names[j] \in config.registered})
           ELSE IF config.category # ""
           THEN Range(config.tests) =
                   {k \in config.registered :
                       \/ config.category \in {"PREBID", "prebid"}
                          /\ config.category_of[k] = "PREBID"
                       \/ config.category = "gpt" /\ config.category_of[k] = "GPT"}
           ELSE Range(config.tests) = config.registered
        /\ config.tests = <<>> =>
              /\ mpc = "returned"
              /\ results = <<>>
              /\ browser_manager.startCalls = 0
              /\ browser_manager.newPages = 0
              /\ \A i \in Urls : visits[i] = NoVisit

C23_Witness ==
    /\ mpc = "returned"
    /\ Len(config.test_names) > 0
    /\ config.registered # {}
    /\ config.category = "prebid"
    /\ \E k \in config.registered : config.category_of[k] = "PREBID"
    /\ config.tests = <<>>
    /\ config.nurls > 0


(***************************************************************************)
(* Claims about the bounded waits of a visit, checked under                *)
(* SpecVisitWaits.                                                         *)
(***************************************************************************)
\* C24: each bounded wait of a visit (consent dismissal, readiness,
\* page-type detection) ends with its default (no click, False, "unknown")
\* when its deadline passes or when the page raises while being polled,
\* never with an exception; the visit does not abort on a default and goes
\* on to the checks.
C24_WaitsEndWithDefaultNeverRaise ==
    /\ waiter.pc # "aborted"
    /\ "consent" \in waiter.timedout => waiter.cmp = "no click"
    /\ "ready" \in waiter.timedout => waiter.ready = "False"
    /\ "pagetype" \in waiter.timedout =>
          waiter.page_type = "unknown" /\ waiter.pc = "checks"

\* C25: the deadline of each wait is the one configured for it: no round of
\* the consent search begins at or after cmp_timeout, no readiness poll at or
\* after prebid_ready_timeout, no page-type poll at or after
\* page_type_timeout.
C25_WaitsBoundedByConfiguredTimeouts ==
    /\ waiter.polled["consent"] < config.cmp_timeout
    /\ waiter.polled["ready"] < config.prebid_ready_timeout
    /\ waiter.polled["pagetype"] < config.page_type_timeout


(***************************************************************************)
(* Claims about _add_basic_auth_to_url, checked under SpecAuth.            *)
(***************************************************************************)
\* The URL's host indicates a pre-production environment.
IsPreprodHost(url) == TokensIn(url.host) \cap PreprodTokens # {}

\* C26: _add_basic_auth_to_url injects credentials if and only if (uat_mode
\* is set or the URL's host indicates a pre-production environment) and the
\* URL has a host and no embedded credentials; otherwise the URL is returned
\* unchanged, so a URL on a production host comes back unchanged when
\* uat_mode is off, whatever its path or query contains.
C26_CredentialsIffPreprodHostOrUatMode ==
    \A j \in 1..Len(results) :
        LET url == config.url
            inject == /\ config.uat_mode \/ IsPreprodHost(url)
                      /\ url.host # ""
                      /\ url.userinfo = ""
        IN results[j] = IF inject THEN [url EXCEPT !.userinfo = "demo:review"]
                        ELSE url


(***************************************************************************)
(* Claims about the order of a visit's steps, checked under Spec.          *)
(***************************************************************************)
\* The step of a visit that must have completed for the visit to be at
\* position pc: each await of _run_tests_for_url (lines 490-551) follows the
\* one before it.
ComesFrom(i, pc) ==
    IF pc = "goto" THEN {"cookies"}
    ELSE IF pc = "consent" THEN {"goto"}
    ELSE IF pc = "ready" THEN (IF HandleCmp(i) THEN {"consent"} ELSE {"goto"})
    ELSE IF pc = "slots" THEN {"ready"}
    ELSE IF pc = "pagetype" THEN {"slots"}
    ELSE IF pc = "locale" THEN {"pagetype"}
    ELSE IF pc = "checks" THEN {"locale"}
    ELSE {}

\* The positions of a visit between its first step and its checks.
VisitSteps == {"goto", "consent", "ready", "slots", "pagetype", "locale", "checks"}

\* C27: within one page visit the steps are strictly sequential, also while
\* other visits are interleaved in parallel mode: cookies are set before the
\* navigation starts, the navigation completes before consent handling
\* starts, consent handling before the readiness wait, and the readiness wait
\* and the page-type and locale detection before the first check's setup is
\* called; a step of one visit moves no other visit that has begun.
C27_VisitStepsStrictlySequential ==
    [][\A i \in Urls :
          LET a == visits[i].pc
              b == visits'[i].pc
          IN a # b =>
                /\ b \in VisitSteps => a \in ComesFrom(i, b)
                /\ \A j \in Urls \ {i} :
                      visits'[j].pc # visits[j].pc =>
                          "idle" \in {a, visits[j].pc}]_vars

C27_Witness ==
    /\ config.parallel_tests
    /\ visits[1].pc = "checks"
    /\ visits[2].pc = "goto"
    /\ cmp_handled


(***************************************************************************)
(* Claims about termination, checked under SpecFair.                       *)
(***************************************************************************)
\* C28: in bounded-parallel mode with a width of at least 1, every step of
\* every visit terminating, every URL's visit eventually acquires a permit
\* and completes, the browser is eventually closed and run_tests returns.
C28_ParallelRunClosesAndReturns ==
    (mpc = "gather") ~>
        /\ mpc = "returned"
        /\ browser_manager.closeCalls >= 1
        /\ \A i \in 1..config.nurls : visits[i].pc \in {"done", "failed"}


(***************************************************************************)
(* Claims about the consent flag, checked under SpecFlag.                  *)
(***************************************************************************)
\* A handle_consent call's search clicks a control in this step.
ConsentClick ==
    \E c \in Callers :
        /\ consent[c].pc = "search"
        /\ consent'[c].ret = "clicked"
        /\ cmp_calls' = Append(cmp_calls, <<"click", consent[c].page>>)

CeilDiv(t, p) == IF t <= 0 THEN 0 ELSE (t + p - 1) \div p

C33_VisitOutputIsOneBlock ==
    /\ \A a, b, c \in 1..Len(results) :
          (a < b /\ b < c /\ results[a].visit = results[c].visit) =>
              results[b].visit = results[a].visit
    /\ \A j \in 1..Len(results) : visits[results[j].visit].pc = "done"


\* C34: _add_basic_auth_to_url is idempotent: applied to its own result it
\* returns that result unchanged, so however many times a URL is rewritten
\* it carries the credentials "demo:review" at most once (its user
\* information is what it had, or exactly the injected pair).
C34_AddBasicAuthIdempotent ==
    \A j \in 1..Len(results) :
        /\ j > 1 => results[j] = results[j - 1]
        /\ results[j].userinfo \in UserInfos \cup {"demo:review"}

\* Credentials were injected into a URL and the result was rewritten twice
\* more.
C34_Witness ==
    /\ Len(results) = 3
    /\ config.url.userinfo = ""
    /\ results[1].userinfo = "demo:review"
    /\ results[3] = results[1]



(***************************************************************************)
(* Claims about the discovery of the checks, checked under SpecDisc.       *)
(***************************************************************************)
\* The classes discovery came upon: those of the modules that import.
Discovered ==
    {c \in [module : 1..Len(config.modules),
            name : {ClassNames[j] : j \in DOMAIN ClassNames}] :
        /\ config.modules[c.module].imports
        /\ c.name \in config.modules[c.module].classes}

\* Each registered name maps to the last class discovered under that name,
\* and every discovered name is registered.
NamesMapToLastDiscovered(reg) ==
    /\ DOMAIN reg.tests = {c.name : c \in Discovered}
    /\ \A n \in DOMAIN reg.tests :
          /\ reg.tests[n] \in Discovered
          /\ reg.tests[n].name = n
          /\ \A c \in Discovered : c.name = n => c.module <= reg.tests[n].module

\* Resolving a category yields no class twice.
CategoryNamesOnce(reg) ==
    \A category \in Categories :
        LET classes == CategoryTests(reg, category)
        IN \A a, b \in 1..Len(classes) : classes[a] = classes[b] => a = b

\* Resolving a category yields classes discovered under that category.
CategoryClassesOfCategory(reg) ==
    \A category \in Categories :
        LET classes == CategoryTests(reg, category)
        IN \A a \in 1..Len(classes) :
              config.modules[classes[a].module].category = category

\* C35: after discovery each check name maps to exactly one class, the last
\* one discovered; resolving a category yields each of its names once, each
\* resolved to a class discovered under that category; and the registry of
\* TestFramework.discover_tests equals the one of discovery.discover_tests.
C35_RegistryNamesUniqueAndSame ==
    /\ warm.framework =>
          /\ NamesMapToLastDiscovered(results)
          /\ CategoryNamesOnce(results)
          /\ CategoryClassesOfCategory(results)
    /\ warm.function =>
          /\ NamesMapToLastDiscovered(waiter)
          /\ CategoryNamesOnce(waiter)
          /\ CategoryClassesOfCategory(waiter)
    /\ (warm.framework /\ warm.function) => results = waiter

====
